---- MODULE Spec2Model ----
(***************************************************************************)
(* A model of tools/simple_simulator_ja.py: the click-cost simulation of   *)
(* one Japanese target sentence (simulate_japanese), and the loop of main  *)
(* that runs it on the lines of the standard input and adds up the totals. *)
(*                                                                         *)
(* A Python string is a sequence of characters, a character is a TLA+      *)
(* string naming it ("KARE" is the kanji of 'he', "JO" the kanji of        *)
(* 'woman', "KA" a katakana, "ka" its hiragana).  A token is a string, a   *)
(* token list a sequence of strings.  None and the empty list are both     *)
(* << >>: the code only tests them for truthiness.                         *)
(*                                                                         *)
(* The segmenter (TinySegmenter), the analyser (MeCab) and the suggestion  *)
(* oracle (the LLM behind macro.RunMacro) are libraries and services       *)
(* outside the repository: the segmenter is a boundary rule drawn from     *)
(* Segmenters, the analyser's first output line is drawn from MecabLines   *)
(* or printed from a dictionary of Dictionaries, the oracle's response is  *)
(* drawn from OracleResponses: any response for the live oracle, one       *)
(* response per mode and context for a stub of Stubs, an exception for an  *)
(* oracle that is down.                                                    *)
(***************************************************************************)
EXTENDS Integers, Sequences, FiniteSets, TLC

NUM_SENTENCE_SUGGESTIONS == 2

\* ---------------------------------------------------------------- bounds
MaxTargetLen == 3   \* characters of a target or of a suggested sentence
MaxWordLen == 2     \* characters of a suggested word
MaxYomi == 2        \* characters of a reading of the analyser's dictionary
MaxTotal == 2       \* a total handed to print_cumulative_stats
MaxLines == 4       \* lines of a draft template

\* The candidates of one parsed oracle reply: as many as the sentence loop
\* looks at.
MaxReply == NUM_SENTENCE_SUGGESTIONS

\* The characters targets and candidates are written with.
TargetChars == {"KARE", "JO"}
\* The katakana the analyser spells readings with.
YomiChars == {"KA"}

\* ------------------------------------------------------------- constants
INITIAL_PHRASES_JA ==
  << <<"ha", "i">>, <<"i", "i", "e">>, <<"a", "ri", "ga", "to", "u">>,
     <<"su", "mi", "ma", "se", "n">>, <<"o", "NEGA", "i", "shi", "ma", "su">>,
     <<"WATASHI">>, <<"a", "na", "ta">>, <<"KARE">>, <<"KARE", "JO">>,
     <<"KYO", "HI">>, <<"SAKU", "HI">>, <<"ASU", "HI">> >>

\* ---------------------------------------------------- strings and lists
\* The sequences over S of length 0..n.
SeqsUpTo(S, n) == UNION {[1..k -> S] : k \in 0..n}

\* list[:n]
Take(list, n) == SubSeq(list, 1, IF n < Len(list) THEN n ELSE Len(list))

\* text.startswith(prefix); also tokens[:len(p)] == p on token lists.
StartsWith(text, prefix) == Take(text, Len(prefix)) = prefix

\* "".join(tokens)
RECURSIVE Join(_)
Join(tokens) ==
  IF tokens = << >> THEN << >> ELSE Head(tokens) \o Join(Tail(tokens))

\* katakana_to_hiragana: a katakana in the range is shifted to its hiragana,
\* every other character is kept.
HiraganaOf(ch) ==
  CASE ch = "KA" -> "ka"
    [] ch = "RE" -> "re"
    [] OTHER -> ch

katakana_to_hiragana(text) == [i \in 1..Len(text) |-> HiraganaOf(text[i])]

\* The end padding the segmenter puts after the last character.
EndPad == "E1"

\* The context the segmenter decides a boundary before text[i] from: the
\* character before, the character, and the character after (or the padding).
Window(text, i) ==
  << text[i - 1], text[i], IF i < Len(text) THEN text[i + 1] ELSE EndPad >>

\* The segmenters of the model, named by their boundary rule: one token per
\* character; one token per text; a cut between different characters; a cut
\* that depends on the look-ahead (the last two characters of a text stay
\* together, so the tokens of a text's prefix need not start its tokens).
Segmenters == {"chars", "whole", "change", "lookahead"}

\* The segmenter scores the window as a boundary.
Boundary(segmenter, window) ==
  CASE segmenter = "chars" -> TRUE
    [] segmenter = "whole" -> FALSE
    [] segmenter = "change" -> window[1] # window[2]
    [] segmenter = "lookahead" -> window[3] # EndPad

\* TinySegmenter.tokenize: no token for the empty text, otherwise the text
\* cut at every position whose window scores as a boundary.
RECURSIVE Segment(_, _, _, _, _)
Segment(segmenter, text, i, word, result) ==
  IF i > Len(text) THEN Append(result, word)
  ELSE IF Boundary(segmenter, Window(text, i))
       THEN Segment(segmenter, text, i + 1, <<text[i]>>, Append(result, word))
       ELSE Segment(segmenter, text, i + 1, Append(word, text[i]), result)

\* A segmenter whose tokenize returns no token, whatever the text.
Mute == "mute"

\* tokenize_with_tinysegmenter that gives one empty token for the empty text.
tokenize_with_tinysegmenter_EmptyToken(text, segmenter) ==
  IF segmenter = Mute THEN << >>
  ELSE IF text = << >> THEN << << >> >>
  ELSE Segment(segmenter, text, 2, <<text[1]>>, << >>)

tokenize_with_tinysegmenter(text, segmenter) ==
  IF segmenter = Mute \/ text = << >> THEN << >>
  ELSE Segment(segmenter, text, 2, <<text[1]>>, << >>)

\* common_prefix(target_tokens, text_tokens)
RECURSIVE CommonLen(_, _, _)
CommonLen(a, b, i) ==
  IF i < Len(a) /\ i < Len(b) /\ a[i + 1] = b[i + 1]
  THEN CommonLen(a, b, i + 1) ELSE i

\* common_prefix that takes one token more, from the second list.
common_prefix_Overrun(a, b) == Take(b, CommonLen(a, b, 0) + 1)

common_prefix(a, b) == Take(a, CommonLen(a, b, 0))

\* ------------------------------------------------------------- analyser
Star == <<"*">>
Whitespace == {" "}

\* not surface_token.strip()
IsBlank(text) == \A i \in 1..Len(text) : text[i] \in Whitespace

\* The readings a dictionary entry can carry: katakana, 1..MaxYomi long.
Readings == SeqsUpTo(YomiChars, MaxYomi) \ {<< >>}

\* The first line of mecab_tagger.parse(surface_token): the bare 'EOS', a
\* line without a tab, or surface TAB features, the features being those of
\* a dictionary word with a reading, of a dictionary word whose reading is
\* '*', of an unknown word (7 fields), or the surface alone.
MecabLines(surface_token) ==
  { [kind |-> "EOS", surface |-> << >>, features |-> << >>],
    [kind |-> "plain", surface |-> surface_token, features |-> << >>],
    [kind |-> "node", surface |-> surface_token,
     features |-> <<<<"POS">>, Star, Star, Star, Star, Star, Star>>],
    [kind |-> "node", surface |-> surface_token,
     features |-> <<<<"POS">>, Star, Star, Star, Star, Star,
                    surface_token, Star, Star>>],
    [kind |-> "node", surface |-> surface_token,
     features |-> <<surface_token>>] }
  \cup
  { [kind |-> "node", surface |-> surface_token,
     features |-> <<<<"POS">>, Star, Star, Star, Star, Star,
                    surface_token, yomi, yomi>>] : yomi \in Readings }

\* get_yomigana with a tagger: the reading field if there is one, else the
\* first feature when it repeats the surface, else the surface token.
get_yomigana(surface_token, line) ==
  IF IsBlank(surface_token) THEN << >>
  ELSE IF line.kind = "EOS" THEN katakana_to_hiragana(surface_token)
  ELSE IF line.kind = "node" /\ Len(line.features) > 7
          /\ line.features[8] # Star
       THEN katakana_to_hiragana(line.features[8])
  ELSE IF line.kind = "node" /\ Len(line.features) > 0
          /\ line.surface = line.features[1] /\ line.features[1] # Star
       THEN katakana_to_hiragana(line.features[1])
  ELSE katakana_to_hiragana(surface_token)

\* The dictionaries of the model, named by the readings they carry: none;
\* one katakana for every word; MaxYomi katakana for every word; one
\* katakana for the words that start with "KARE" and none for the others.
Dictionaries == {"unknown", "short", "long", "mixed"}

\* The analysers: one that may print any line for a token, and one for each
\* dictionary, which prints the same line for the same token.
Taggers == {"any"} \cup Dictionaries

\* The reading field of the dictionary for a token, '*' when it has none.
DictionaryReading(dictionary, surface_token) ==
  CASE dictionary = "short" -> <<"KA">>
    [] dictionary = "long" -> [i \in 1..MaxYomi |-> "KA"]
    [] dictionary = "mixed" ->
         IF surface_token # << >> /\ surface_token[1] = "KARE"
         THEN <<"KA">> ELSE Star
    [] OTHER -> Star

\* The line the analyser of a dictionary prints for a token: the features of
\* a dictionary word with its reading, or those of an unknown word.
MecabLine(dictionary, surface_token) ==
  LET yomi == DictionaryReading(dictionary, surface_token)
  IN IF yomi # Star
     THEN [kind |-> "node", surface |-> surface_token,
           features |-> <<<<"POS">>, Star, Star, Star, Star, Star,
                          surface_token, yomi, yomi>>]
     ELSE [kind |-> "node", surface |-> surface_token,
           features |-> <<<<"POS">>, Star, Star, Star, Star, Star, Star>>]

\* The first lines mecab_tagger.parse(surface_token) can print.
TaggerLines(tagger, surface_token) ==
  IF tagger = "any" THEN MecabLines(surface_token)
  ELSE {MecabLine(tagger, surface_token)}

\* The analysers whose parse prints no line of a word: it prints nothing,
\* it prints the bare 'EOS', it raises.
Faults == {"silent", "eos", "raises"}

\* The last line mecab_tagger.parse prints.
EosLine == [kind |-> "EOS", surface |-> << >>, features |-> << >>]

\* What mecab_tagger.parse(surface_token) can do: raise, or return the
\* lines it prints.
Parse(tagger, surface_token) ==
  CASE tagger = "raises" -> {[raised |-> TRUE, lines |-> << >>]}
    [] tagger = "silent" -> {[raised |-> FALSE, lines |-> << >>]}
    [] tagger = "eos" -> {[raised |-> FALSE, lines |-> <<EosLine>>]}
    [] OTHER -> {[raised |-> FALSE, lines |-> <<line, EosLine>>] :
                   line \in TaggerLines(tagger, surface_token)}

\* Lines 142-186, get_yomigana around the first line: nothing for a blank
\* token; the surface token when parse raises (lines 183-186); the reading
\* of the first line when there is one; and when parse returns no line the
\* function falls off its end and returns None (line 160 is false and no
\* return follows the try).
Lookup(surface_token, output) ==
  IF IsBlank(surface_token) THEN [none |-> FALSE, yomi |-> << >>]
  ELSE IF output.raised
       THEN [none |-> FALSE, yomi |-> katakana_to_hiragana(surface_token)]
  ELSE IF output.lines = << >> THEN [none |-> TRUE, yomi |-> << >>]
  ELSE [none |-> FALSE, yomi |-> get_yomigana(surface_token, output.lines[1])]

\* The node before the first and after the last word of a sentence.
BosEos ==
  [kind |-> "node", surface |-> << >>,
   features |-> <<<<"BOS/EOS">>, Star, Star, Star, Star, Star, Star, Star,
                  Star>>]

\* The nodes mecab_tagger.parseToNode(text) can give: the words the analyser
\* cuts the text into (by any of the boundary rules, its own), each with the
\* features the analyser has for it, between the two BOS/EOS nodes.
MecabNodes(tagger, text) ==
  UNION { LET words == tokenize_with_tinysegmenter(text, rule)
          IN { <<BosEos>> \o nodes \o <<BosEos>> :
                 nodes \in { f \in [1..Len(words) ->
                                      UNION {TaggerLines(tagger, words[i]) :
                                               i \in 1..Len(words)}] :
                               \A i \in 1..Len(words) :
                                 /\ f[i] \in TaggerLines(tagger, words[i])
                                 /\ f[i].kind = "node" } }
          : rule \in Segmenters }

\* get_sentence_yomigana: the readings of the nodes one after the other, the
\* surface of a node that has no reading.
RECURSIVE get_sentence_yomigana(_)
get_sentence_yomigana(nodes) ==
  IF nodes = << >> THEN << >>
  ELSE LET features == Head(nodes).features
       IN (IF Len(features) > 7 /\ features[8] # Star
           THEN katakana_to_hiragana(features[8])
           ELSE Head(nodes).surface)
          \o get_sentence_yomigana(Tail(nodes))

\* ------------------------------------------------ initial-phrase matcher
\* InitialPhraseLoop without the token comparison: the start of the target's
\* surface alone selects a phrase.
RECURSIVE InitialPhraseLoop_StringOnly(_, _, _, _, _)
InitialPhraseLoop_StringOnly(tgt, tgt_tokens, segmenter, i, best) ==
  IF i > Len(INITIAL_PHRASES_JA) THEN best
  ELSE LET phrase == INITIAL_PHRASES_JA[i]
       IN IF StartsWith(tgt, phrase) /\ Len(phrase) > Len(best.phrase)
          THEN InitialPhraseLoop_StringOnly(tgt, tgt_tokens, segmenter, i + 1,
                 [phrase |-> phrase,
                  tokens |-> tokenize_with_tinysegmenter(phrase, segmenter)])
          ELSE InitialPhraseLoop_StringOnly(tgt, tgt_tokens, segmenter, i + 1,
                                            best)

\* InitialPhraseLoop that stops at the first phrase that matches.
RECURSIVE InitialPhraseLoop_FirstMatch(_, _, _, _, _)
InitialPhraseLoop_FirstMatch(tgt, tgt_tokens, segmenter, i, best) ==
  IF i > Len(INITIAL_PHRASES_JA) THEN best
  ELSE LET phrase == INITIAL_PHRASES_JA[i]
           current_match_tokens == tokenize_with_tinysegmenter(phrase, segmenter)
       IN IF StartsWith(tgt, phrase) /\ Len(phrase) > Len(best.phrase)
             /\ Take(tgt_tokens, Len(current_match_tokens)) = current_match_tokens
          THEN [phrase |-> phrase, tokens |-> current_match_tokens]
          ELSE InitialPhraseLoop_FirstMatch(tgt, tgt_tokens, segmenter, i + 1,
                                            best)

\* The loop over INITIAL_PHRASES_JA, from phrase i on, with the best match
\* so far: a phrase replaces it when the target starts with the phrase, the
\* phrase is longer than the best phrase, and its tokens start the target's.
RECURSIVE InitialPhraseLoop(_, _, _, _, _)
InitialPhraseLoop(tgt, tgt_tokens, segmenter, i, best) ==
  IF i > Len(INITIAL_PHRASES_JA) THEN best
  ELSE LET phrase == INITIAL_PHRASES_JA[i]
           current_match_tokens == tokenize_with_tinysegmenter(phrase, segmenter)
       IN IF StartsWith(tgt, phrase) /\ Len(phrase) > Len(best.phrase)
             /\ Take(tgt_tokens, Len(current_match_tokens)) = current_match_tokens
          THEN InitialPhraseLoop(tgt, tgt_tokens, segmenter, i + 1,
                 [phrase |-> phrase, tokens |-> current_match_tokens])
          ELSE InitialPhraseLoop(tgt, tgt_tokens, segmenter, i + 1, best)

BestInitialMatch(tgt, tgt_tokens, segmenter) ==
  InitialPhraseLoop(tgt, tgt_tokens, segmenter, 1,
                    [phrase |-> << >>, tokens |-> << >>])

\* ------------------------------------------------------------ the oracle
\* The strings the oracle can return as one suggested sentence and as one
\* suggested word (the empty one too: a reply line '1.' parses to it).
SentenceStrings == SeqsUpTo(TargetChars, MaxTargetLen)

WordStrings == SeqsUpTo(TargetChars, MaxWordLen)

\* parse_response(response): the candidates of one reply, in rank order.
SentenceReplies == SeqsUpTo(SentenceStrings, MaxReply)

WordReplies == SeqsUpTo(WordStrings, MaxReply)

\* One line of the text of a response: numbered ('1. body') or not.
Line(numbered, body) == [numbered |-> numbered, body |-> body]

\* The response of macro.RunMacro, a string: empty; not JSON; a JSON object
\* without 'messages'; or a JSON object whose 'messages' is a list of
\* messages, each with or without a 'text' of lines.
Response(kind, messages) == [kind |-> kind, messages |-> messages]

Message(has_text, text) == [has_text |-> has_text, text |-> text]

\* json.dumps({'messages': []}): what RunGeminiMacro returns for an empty
\* answer of the model.
NoMessages == Response("messages", << >>)

\* json.dumps({'messages': [{'text': text}]}) with the candidates numbered in
\* rank order.
Numbered(candidates) ==
  Response("messages",
    << Message(TRUE, [i \in 1..Len(candidates) |-> Line(TRUE, candidates[i])]) >>)

\* The responses that are not a list of numbered candidates.
Malformed ==
  { Response("empty", << >>),
    Response("not_json", << >>),
    Response("no_messages", << >>),
    NoMessages,
    Response("messages", << Message(FALSE, << >>) >>),
    Response("messages", << Message(TRUE, << >>) >>),
    Response("messages", << Message(TRUE, << Line(FALSE, <<"KARE">>) >>) >>) }

\* parse_response that keeps every line of the text, numbered or not.
parse_response_AllLines(response) ==
  IF response.kind = "empty" THEN << >>
  ELSE IF response.kind = "not_json" THEN << >>
  ELSE IF /\ response.kind = "messages"
          /\ response.messages # << >>
          /\ response.messages[1].has_text
       THEN LET lines == response.messages[1].text
            IN [i \in 1..Len(lines) |-> lines[i].body]
  ELSE << >>

\* parse_response: no candidate for an empty response, for one that is not
\* JSON and for one without messages[0].text; otherwise the numbered lines
\* of the text, without their numbers, in order.
parse_response(response) ==
  IF response.kind = "empty" THEN << >>
  ELSE IF response.kind = "not_json" THEN << >>
  ELSE IF /\ response.kind = "messages"
          /\ response.messages # << >>
          /\ response.messages[1].has_text
       THEN LET lines == SelectSeq(response.messages[1].text,
                                   LAMBDA line : line.numbered)
            IN [i \in 1..Len(lines) |-> lines[i].body]
  ELSE << >>

\* The oracles of the model.  "live" answers anything; "down" cannot be
\* reached, every call of it raises; the others are stubs, their response a
\* function of the mode and the context: "empty" never suggests anything,
\* "sentences" suggests the context continued by one character, "words"
\* suggests the one-character words unless a reading is being typed, "late"
\* suggests them only while a reading is being typed.  "ranked" answers a
\* sentence call with 3 candidates, the third any sentence, and a word call
\* with none.
Stubs == {"empty", "sentences", "words", "late"}

Oracles == {"live", "down", "ranked"} \cup Stubs

\* The context ends with a character of a reading.
TypingReading(context) ==
  context # << >> /\ context[Len(context)] \in {HiraganaOf(ch) : ch \in YomiChars}

OneCharWords == << <<"KARE">>, <<"JO">> >>

\* The responses the oracle can give to a call (none when the call raises).
OracleResponses(orc, mode, context) ==
  CASE orc = "live" ->
         Malformed \cup
         { Numbered(candidates) :
             candidates \in IF mode = "sentence" THEN SentenceReplies
                                                 ELSE WordReplies }
    [] orc = "down" -> {}
    [] orc = "ranked" ->
         IF mode = "sentence"
         THEN { Numbered(<< first, second, third >>) :
                  first \in {<<"JO">>, Append(context, "JO")},
                  second \in {<<"JO">>, Append(context, "JO")},
                  third \in SentenceStrings }
         ELSE {NoMessages}
    [] orc = "empty" -> {NoMessages}
    [] orc = "sentences" ->
         IF mode = "sentence"
         THEN {Numbered(<< Append(context, "KARE"), Append(context, "JO") >>)}
         ELSE {NoMessages}
    [] orc = "words" ->
         IF mode = "word" /\ ~TypingReading(context)
         THEN {Numbered(OneCharWords)} ELSE {NoMessages}
    [] orc = "late" ->
         IF mode = "word" /\ TypingReading(context)
         THEN {Numbered(OneCharWords)} ELSE {NoMessages}

\* sentence_suggestions that returns every parsed candidate.
sentence_suggestions_All(parsed_suggestions) == parsed_suggestions

\* sentence_suggestions keeps the first NUM_SENTENCE_SUGGESTIONS candidates.
sentence_suggestions(parsed_suggestions) ==
  Take(parsed_suggestions, NUM_SENTENCE_SUGGESTIONS)

\* word_suggestions returns every parsed candidate.
word_suggestions(parsed_suggestions) == parsed_suggestions

\* SentenceLoop that keeps the first candidate reaching beyond the typed
\* tokens instead of the one reaching furthest.
RECURSIVE SentenceLoop_First(_, _, _, _, _, _, _)
SentenceLoop_First(suggested, tgt_tokens, txt_tokens, segmenter, i, selected, longest) ==
  IF i > Len(suggested) THEN selected
  ELSE LET s_tokens == tokenize_with_tinysegmenter(suggested[i], segmenter)
           prefix == common_prefix(tgt_tokens, s_tokens)
       IN IF s_tokens # << >> /\ Len(prefix) > longest
             /\ Take(prefix, Len(txt_tokens)) = txt_tokens
          THEN prefix
          ELSE SentenceLoop_First(suggested, tgt_tokens, txt_tokens, segmenter,
                                  i + 1, selected, longest)

\* SentenceLoop that takes the whole suggested sentence, not the part it
\* shares with the target.
RECURSIVE SentenceLoop_Whole(_, _, _, _, _, _, _)
SentenceLoop_Whole(suggested, tgt_tokens, txt_tokens, segmenter, i, selected, longest) ==
  IF i > Len(suggested) THEN selected
  ELSE LET s_tokens == tokenize_with_tinysegmenter(suggested[i], segmenter)
           prefix == common_prefix(tgt_tokens, s_tokens)
       IN IF s_tokens # << >> /\ Len(prefix) > longest
             /\ Take(prefix, Len(txt_tokens)) = txt_tokens
          THEN SentenceLoop_Whole(suggested, tgt_tokens, txt_tokens, segmenter,
                                  i + 1, s_tokens, Len(prefix))
          ELSE SentenceLoop_Whole(suggested, tgt_tokens, txt_tokens, segmenter,
                                  i + 1, selected, longest)

\* The sentence loop of one step from candidate i on: the longest common
\* prefix with the target that is longer than longest_prefix_len.
RECURSIVE SentenceLoop(_, _, _, _, _, _, _)
SentenceLoop(suggested, tgt_tokens, txt_tokens, segmenter, i, selected, longest) ==
  IF i > Len(suggested) THEN selected
  ELSE LET s_tokens == tokenize_with_tinysegmenter(suggested[i], segmenter)
           prefix == common_prefix(tgt_tokens, s_tokens)
       IN IF s_tokens # << >> /\ Len(prefix) > longest
             /\ Take(prefix, Len(txt_tokens)) = txt_tokens
          THEN SentenceLoop(suggested, tgt_tokens, txt_tokens, segmenter,
                            i + 1, prefix, Len(prefix))
          ELSE SentenceLoop(suggested, tgt_tokens, txt_tokens, segmenter,
                            i + 1, selected, longest)

\* SelectSentence that takes one token of the selected sentence at a time.
SelectSentence_NextToken(suggested, tgt_tokens, txt_tokens, segmenter) ==
  Take(SentenceLoop(suggested, tgt_tokens, txt_tokens, segmenter, 1, << >>,
                    Len(txt_tokens)),
       Len(txt_tokens) + 1)

SelectSentence(suggested, tgt_tokens, txt_tokens, segmenter) ==
  SentenceLoop(suggested, tgt_tokens, txt_tokens, segmenter, 1, << >>,
               Len(txt_tokens))

\* WordFits without the skip of a candidate that has no token.
WordFits_AllowEmpty(word_candidate_tokens, tgt_tokens, txt_tokens) ==
  LET start_index == Len(txt_tokens)
      end_index == start_index + Len(word_candidate_tokens)
  IN /\ end_index <= Len(tgt_tokens)
     /\ SubSeq(tgt_tokens, start_index + 1, end_index) = word_candidate_tokens

\* WordFits that compares the candidate's first token only.
WordFits_Prefix(word_candidate_tokens, tgt_tokens, txt_tokens) ==
  /\ word_candidate_tokens # << >>
  /\ Len(txt_tokens) < Len(tgt_tokens)
  /\ tgt_tokens[Len(txt_tokens) + 1] = word_candidate_tokens[1]

\* The word test of one candidate: its tokens are the target's tokens right
\* after the typed ones.
WordFits(word_candidate_tokens, tgt_tokens, txt_tokens) ==
  LET start_index == Len(txt_tokens)
      end_index == start_index + Len(word_candidate_tokens)
  IN /\ word_candidate_tokens # << >>
     /\ end_index <= Len(tgt_tokens)
     /\ SubSeq(tgt_tokens, start_index + 1, end_index) = word_candidate_tokens

\* The word loop from candidate i on: the rank of the first candidate that
\* fits, 0 when none does.
RECURSIVE WordLoop(_, _, _, _, _)
WordLoop(candidates, tgt_tokens, txt_tokens, segmenter, i) ==
  IF i > Len(candidates) THEN 0
  ELSE IF WordFits(tokenize_with_tinysegmenter(candidates[i], segmenter),
                   tgt_tokens, txt_tokens)
       THEN i
       ELSE WordLoop(candidates, tgt_tokens, txt_tokens, segmenter, i + 1)

\* CharHit that looks at the top suggestion only.
CharHit_First(char_level_suggestions, next_target_surface_token) ==
  /\ char_level_suggestions # << >>
  /\ char_level_suggestions[1] = next_target_surface_token

\* The test of the character-level suggestions: one of them is the surface
\* of the token being typed.
CharHit(char_level_suggestions, next_target_surface_token) ==
  \E i \in 1..Len(char_level_suggestions) :
    char_level_suggestions[i] = next_target_surface_token

\* ------------------------------------------------------------ the report
\* Nothing has been printed yet.
NoReport == [outcome |-> "none", ratios |-> << >>]

\* Lines 494-495: main has counted no line.
EmptyInput == [outcome |-> "Empty Input", ratios |-> << >>]

\* A ratio the code has computed by dividing num by den.
Ratio(num, den) == << num, den >>

\* Lines 498-527: the ratios print_cumulative_stats computes and how it
\* ends.  With clicks and keystrokes it divides the length by the clicks and
\* the clicks by the keystrokes; with events it divides by the events, and
\* without events it prints suggestion_rate, which was never assigned
\* (lines 514-517); without clicks or keystrokes it prints N/A.
print_cumulative_stats(total_len, clicks_total, s, w, fb, kb_input) ==
  IF clicks_total > 0 /\ kb_input > 0
  THEN IF s + w + fb > 0
       THEN [outcome |-> "printed",
             ratios |->
               [avg_chars_per_click |-> Ratio(total_len, clicks_total),
                keystroke_saving_rate |-> Ratio(clicks_total, kb_input),
                suggestion_rate |-> Ratio(s + w, s + w + fb),
                avg_chars_per_selection |-> Ratio(total_len, s + w + fb)]]
       ELSE [outcome |-> "UnboundLocalError",
             ratios |->
               [avg_chars_per_click |-> Ratio(total_len, clicks_total),
                keystroke_saving_rate |-> Ratio(clicks_total, kb_input)]]
  ELSE [outcome |-> "N/A", ratios |-> << >>]

\* ------------------------------------------- the templates (src/macro.py)
\* The lines of a template as the loop of RunMacro tells them apart:
\* '#ifdef key', '#else', '#endif', a '#copybara:' line, and any other
\* line, which is text.  A line carries its line number in macro.py, and a
\* text line whether it ends with a backslash.
Ifdef(n, k) == [kind |-> "ifdef", key |-> k, line |-> n, continued |-> FALSE]

Else(n) == [kind |-> "else", key |-> "", line |-> n, continued |-> FALSE]

Endif(n) == [kind |-> "endif", key |-> "", line |-> n, continued |-> FALSE]

Copybara(n) ==
  [kind |-> "copybara", key |-> "", line |-> n, continued |-> FALSE]

Continued(n) == [kind |-> "text", key |-> "", line |-> n, continued |-> TRUE]

\* The text lines a to b, none of which ends with a backslash.
Text(a, b) ==
  [i \in 1..(b - a + 1) |->
     [kind |-> "text", key |-> "", line |-> a + i - 1, continued |-> FALSE]]

\* The templates of TEMPLATES, split at the newlines after textwrap.dedent
\* has taken the common indentation away: every directive starts its line.
\* The last line of each is the empty one after the last newline.
\* Lines 26-52.
SentenceJapaneseLong20241002 ==
  Text(28, 35)
    \o << Ifdef(36, "persona") >>
    \o Text(37, 39)
    \o << Endif(40) >>
    \o << Ifdef(41, "conversationHistory") >>
    \o Text(42, 44)
    \o << Endif(45) >>
    \o Text(46, 46)
    \o << Ifdef(47, "sentenceEmotion") >>
    \o Text(48, 49)
    \o << Endif(50) >>
    \o Text(51, 52)

\* Lines 53-79.
SentenceJapaneseLong20250424 ==
  Text(55, 62)
    \o << Ifdef(63, "persona") >>
    \o Text(64, 66)
    \o << Endif(67) >>
    \o << Ifdef(68, "conversationHistory") >>
    \o Text(69, 71)
    \o << Endif(72) >>
    \o Text(73, 73)
    \o << Ifdef(74, "sentenceEmotion") >>
    \o Text(75, 76)
    \o << Endif(77) >>
    \o Text(78, 79)

\* Lines 80-107.
SentenceJapaneseLong20250603 ==
  Text(82, 90)
    \o << Ifdef(91, "persona") >>
    \o Text(92, 94)
    \o << Endif(95) >>
    \o << Ifdef(96, "conversationHistory") >>
    \o Text(97, 99)
    \o << Endif(100) >>
    \o Text(101, 101)
    \o << Ifdef(102, "sentenceEmotion") >>
    \o Text(103, 104)
    \o << Endif(105) >>
    \o Text(106, 107)

\* Lines 108-123.
SentenceJapanese20240628 ==
  Text(110, 110)
    \o << Ifdef(111, "persona") >>
    \o Text(112, 114)
    \o << Endif(115) >>
    \o << Ifdef(116, "conversationHistory") >>
    \o Text(117, 119)
    \o << Endif(120) >>
    \o Text(121, 123)

\* Lines 124-158.
SentenceGeneric20250311 ==
  << Ifdef(126, "lastInputSpeech") >>
    \o Text(127, 127)
    \o << Ifdef(128, "lastOutputSpeech") >>
    \o Text(129, 130)
    \o << Endif(131) >>
    \o Text(132, 134)
    \o << Ifdef(135, "conversationHistory") >>
    \o Text(136, 137)
    \o << Endif(138) >>
    \o Text(139, 139)
    \o << Continued(140) >>
    \o << Else(141) >>
    \o << Continued(142) >>
    \o << Endif(143) >>
    \o Text(144, 144)
    \o << Ifdef(145, "sentenceEmotion") >>
    \o Text(146, 146)
    \o << Endif(147) >>
    \o Text(148, 150)
    \o << Ifdef(151, "persona") >>
    \o Text(152, 154)
    \o << Endif(155) >>
    \o Text(156, 158)

\* Lines 159-270.
SentenceMandarin20250616 ==
  << Ifdef(161, "lastInputSpeech") >>
    \o Text(162, 163)
    \o << Ifdef(164, "lastOutputSpeech") >>
    \o Text(165, 166)
    \o << Endif(167) >>
    \o Text(168, 170)
    \o << Ifdef(171, "conversationHistory") >>
    \o Text(172, 173)
    \o << Endif(174) >>
    \o Text(175, 175)
    \o << Continued(176) >>
    \o << Else(177) >>
    \o << Continued(178) >>
    \o << Endif(179) >>
    \o Text(180, 263)
    \o << Ifdef(264, "persona") >>
    \o Text(265, 266)
    \o << Endif(267) >>
    \o Text(268, 270)

\* Lines 271-314.
WordGeneric20240628 ==
  << Ifdef(273, "lastInputSpeech") >>
    \o Text(274, 274)
    \o << Ifdef(275, "lastOutputSpeech") >>
    \o Text(276, 277)
    \o << Endif(278) >>
    \o Text(279, 281)
    \o << Ifdef(282, "conversationHistory") >>
    \o Text(283, 284)
    \o << Endif(285) >>
    \o Text(286, 286)
    \o << Continued(287) >>
    \o << Else(288) >>
    \o << Continued(289) >>
    \o << Endif(290) >>
    \o Text(291, 314)

\* Lines 315-373.
WordJapanese20250623 ==
  << Ifdef(317, "lastInputSpeech") >>
    \o Text(318, 318)
    \o << Ifdef(319, "lastOutputSpeech") >>
    \o Text(320, 321)
    \o << Endif(322) >>
    \o Text(323, 325)
    \o << Ifdef(326, "conversationHistory") >>
    \o Text(327, 328)
    \o << Endif(329) >>
    \o Text(330, 332)
    \o << Continued(333) >>
    \o << Else(334) >>
    \o << Continued(335) >>
    \o << Endif(336) >>
    \o << Ifdef(337, "persona") >>
    \o Text(338, 341)
    \o << Endif(342) >>
    \o Text(343, 373)

\* Lines 374-453.
WordMandarin20250326 ==
  << Ifdef(376, "lastInputSpeech") >>
    \o Text(377, 377)
    \o << Ifdef(378, "lastOutputSpeech") >>
    \o Text(379, 380)
    \o << Endif(381) >>
    \o Text(382, 384)
    \o << Continued(385) >>
    \o << Else(386) >>
    \o << Continued(387) >>
    \o << Endif(388) >>
    \o Text(389, 453)

\* Lines 454-574.
WordMandarin20250616 ==
  << Ifdef(456, "lastInputSpeech") >>
    \o Text(457, 458)
    \o << Ifdef(459, "lastOutputSpeech") >>
    \o Text(460, 461)
    \o << Endif(462) >>
    \o Text(463, 465)
    \o << Ifdef(466, "conversationHistory") >>
    \o Text(467, 468)
    \o << Endif(469) >>
    \o << Continued(470) >>
    \o << Else(471) >>
    \o << Continued(472) >>
    \o << Endif(473) >>
    \o Text(474, 574)

TEMPLATES ==
  "SentenceJapaneseLong20241002" :> SentenceJapaneseLong20241002
    @@ "SentenceJapaneseLong20250424" :> SentenceJapaneseLong20250424
    @@ "SentenceJapaneseLong20250603" :> SentenceJapaneseLong20250603
    @@ "SentenceJapanese20240628" :> SentenceJapanese20240628
    @@ "SentenceGeneric20250311" :> SentenceGeneric20250311
    @@ "SentenceMandarin20250616" :> SentenceMandarin20250616
    @@ "WordGeneric20240628" :> WordGeneric20240628
    @@ "WordJapanese20250623" :> WordJapanese20250623
    @@ "WordMandarin20250326" :> WordMandarin20250326
    @@ "WordMandarin20250616" :> WordMandarin20250616

SENTENCE_JA_MACRO_ID == "SentenceJapanese20240628"

WORD_JA_MACRO_ID == "WordGeneric20240628"

\* The keys word_suggestions and sentence_suggestions put in user_input.
SuppliedKeys == {"language", "num", "text"}

\* The keys the templates ask for with #ifdef.
GuardKeys ==
  {"persona", "conversationHistory", "sentenceEmotion", "lastInputSpeech",
   "lastOutputSpeech"}

\* What user_inputs holds for a key: nothing, the empty string, or a string
\* that is not empty.
InputValues == {"absent", "empty", "given"}

\* The user_inputs of a call of RunMacro that gives language, num and text.
UserInputs ==
  {u \in [SuppliedKeys \cup GuardKeys -> InputValues] :
     \A k \in SuppliedKeys : u[k] = "given"}

\* bool(user_inputs.get(key)) of line 650.
is_defined(u, k) == u[k] = "given"

\* all(include_block) of Python, with a stack that ends in the condition of
\* the innermost block only.
all_Innermost(conditions) == conditions = << >> \/ conditions[Len(conditions)]

\* all(include_block) of line 663: true of the empty stack.
all(conditions) == \A i \in DOMAIN conditions : conditions[i]

\* Lines 665-666: the kept lines are joined with newlines, and a backslash
\* at the end of a line takes the newline after it away: the prompt as its
\* lines, each the line numbers of the template lines it is made of.
RECURSIVE JoinLines(_, _, _)
JoinLines(kept, i, joined) ==
  IF i > Len(kept) THEN joined
  ELSE IF i > 1 /\ kept[i - 1].continued
       THEN JoinLines(kept, i + 1,
                      [joined EXCEPT ![Len(joined)] = Append(@, kept[i].line)])
       ELSE JoinLines(kept, i + 1, Append(joined, << kept[i].line >>))

\* A template text that is not in TEMPLATES, of up to MaxLines lines, the
\* lines numbered from 1.
Draft == "draft"

DraftLines ==
  {Ifdef(0, "persona"), Ifdef(0, "sentenceEmotion"), Else(0), Endif(0),
   Copybara(0), Text(0, 0)[1]}

Drafts ==
  UNION {{[i \in 1..n |-> [shape[i] EXCEPT !.line = i]] :
            shape \in [1..n -> DraftLines]} : n \in 1..MaxLines}

DraftInputs ==
  {u \in UserInputs :
     \A k \in GuardKeys \ {"persona", "sentenceEmotion"} : u[k] = "absent"}

\* ------------------------------------------------------------- the state
VARIABLES
  target,                   \* the sentence to reproduce
  tiny_segmenter,           \* the segmenter handed to simulate_japanese
  target_tokens,
  text_tokens,              \* the tokens typed so far
  total_clicks,
  sentence_suggestion_used,
  word_suggestion_used,
  fallback_token_event_count,
  selected_sentence_tokens, \* of the current step; << >> is None
  word_selected,            \* of the current step
  yomigana_hiragana,        \* the reading being typed in the fallback
  typed_chars_count_for_token,
  suggestion_taken_for_this_token,
  oracle,                   \* the oracle behind macro.RunMacro
  mecab_tagger,             \* the analyser handed to simulate_japanese
  response,                 \* the oracle's response the code is looking at
  reply,                    \* its candidates, as the code's loops see them
  llm_context,              \* the context of the last oracle call
  sentence_calls,           \* calls of sentence_suggestions so far
  word_calls,               \* calls of word_suggestions so far
  iterations,               \* bodies of the while loop entered so far
  stats,                    \* the returned list, << >> before the return
  stdin,                    \* the lines main has not read yet
  line_count,
  total_target_char_length,
  cumulative_total_clicks,
  total_sentence_count,
  total_word_count,
  total_fallback_event_count,
  total_keyboard_input,
  target_yomigana,          \* the reading of the line's whole sentence
  clicks, s_count, w_count, fb_count, target_len,  \* main's unpacked result
  previous_log,             \* the steps and calls of the line before
  report,                   \* what print_cumulative_stats has printed
  macro_id,                 \* the template RunMacro expands
  user_inputs,
  template,                 \* its lines, TEMPLATES[macro_id].split
  line_index,               \* the lines the loop has taken
  include_block,
  lines,                    \* the lines kept so far
  prompt,                   \* the joined lines, << >> before the join
  pc                        \* where the program stands

vars ==
  << target, tiny_segmenter, target_tokens, text_tokens, total_clicks,
     sentence_suggestion_used, word_suggestion_used,
     fallback_token_event_count, selected_sentence_tokens, word_selected,
     yomigana_hiragana, typed_chars_count_for_token,
     suggestion_taken_for_this_token, oracle, mecab_tagger, response, reply,
     llm_context, sentence_calls, word_calls, iterations, stats, stdin,
     line_count, total_target_char_length, cumulative_total_clicks,
     total_sentence_count, total_word_count, total_fallback_event_count,
     total_keyboard_input, target_yomigana, clicks, s_count, w_count,
     fb_count, target_len, previous_log, report, macro_id, user_inputs,
     template, line_index, include_block, lines, prompt, pc >>

counters ==
  << total_clicks, sentence_suggestion_used, word_suggestion_used,
     fallback_token_event_count >>

inputs == << target, tiny_segmenter, mecab_tagger, oracle >>

main_totals ==
  << total_target_char_length, cumulative_total_clicks, total_sentence_count,
     total_word_count, total_fallback_event_count >>

main_locals == << clicks, s_count, w_count, fb_count, target_len >>

main_frame ==
  << stdin, line_count, main_totals, total_keyboard_input, target_yomigana,
     main_locals, previous_log, report >>

oracle_log == << llm_context, sentence_calls, word_calls >>

macro_frame ==
  << macro_id, user_inputs, template, line_index, include_block, lines,
     prompt >>

answer == << response, reply >>

\* No response is being looked at.
NoCall == Response("none", << >>)

\* macro.RunMacro raises instead of returning a response.
RunMacroRaises(orc) == orc = "down"

fallback_locals ==
  << yomigana_hiragana, typed_chars_count_for_token,
     suggestion_taken_for_this_token >>

Targets == SeqsUpTo(TargetChars, MaxTargetLen)

\* A local of main that has not been assigned yet: no count is negative.
Unbound == 0 - 1

\* RunMacro is not at its loop: no template is being expanded.
NoExpansion ==
  /\ macro_id = ""
  /\ user_inputs = << >>
  /\ template = << >>
  /\ line_index = 0
  /\ include_block = << >>
  /\ lines = << >>
  /\ prompt = << >>

\* main before its first line: the totals of lines 430-437.
MainEntry ==
  /\ line_count = 0
  /\ total_target_char_length = 0
  /\ cumulative_total_clicks = 0
  /\ total_sentence_count = 0
  /\ total_word_count = 0
  /\ total_fallback_event_count = 0
  /\ total_keyboard_input = 0
  /\ target_yomigana = << >>
  /\ clicks = Unbound
  /\ s_count = Unbound
  /\ w_count = Unbound
  /\ fb_count = Unbound
  /\ target_len = Unbound
  /\ previous_log = << >>
  /\ report = NoReport
  /\ NoExpansion

\* The locals of simulate_japanese before its first statement.
Locals ==
  /\ target_tokens = << >>
  /\ text_tokens = << >>
  /\ total_clicks = 0
  /\ sentence_suggestion_used = 0
  /\ word_suggestion_used = 0
  /\ fallback_token_event_count = 0
  /\ selected_sentence_tokens = << >>
  /\ word_selected = FALSE
  /\ yomigana_hiragana = << >>
  /\ typed_chars_count_for_token = 0
  /\ suggestion_taken_for_this_token = FALSE
  /\ response = NoCall
  /\ reply = << >>
  /\ llm_context = << >>
  /\ sentence_calls = 0
  /\ word_calls = 0
  /\ iterations = 0
  /\ stats = << >>

\* main has initialised the segmenter and the tagger, with an oracle and an
\* analyser of the given kinds, and has read no line; the locals of
\* simulate_japanese are those of its entry.
Entry(oracles, taggers) ==
  /\ tiny_segmenter \in Segmenters
  /\ oracle \in oracles
  /\ mecab_tagger \in taggers
  /\ MainEntry
  /\ Locals

\* The call simulate_japanese(target, tiny_segmenter, mecab_tagger) of main,
\* which has checked both the segmenter and the tagger, with an oracle and an
\* analyser of the given kinds; main is left at its entry.
Simulation(oracles, taggers) ==
  /\ target \in Targets
  /\ stdin = << >>
  /\ pc = "start"
  /\ Entry(oracles, taggers)

\* One simulation with an oracle that answers anything and an analyser that
\* prints any line.
Init == Simulation({"live"}, {"any"})

\* The next token of the target the fallback types.
next_target_surface_token == target_tokens[Len(text_tokens) + 1]

\* AfterSelection that always leaves the loop.
AfterSelection_AlwaysExit(new_text_tokens) == "exit"

\* AfterSelection that goes on with the next strategy of the same step.
AfterSelection_FallThrough(new_text_tokens) ==
  IF Join(new_text_tokens) = target THEN "exit" ELSE "word"

\* Where the code goes after a suggestion was taken: out of the loop when
\* the typed surface is the target, else back to the loop test.
AfterSelection(new_text_tokens) ==
  IF Join(new_text_tokens) = target THEN "exit" ELSE "loop"

\* Tokenize that returns the zero result when the segmenter gives nothing.
Tokenize_ZeroResult ==
  /\ pc = "start"
  /\ LET tokens == tokenize_with_tinysegmenter(target, tiny_segmenter)
     IN IF tokens = << >> /\ target # << >>
        THEN /\ target_tokens' = tokens
             /\ pc' = "returned"
             /\ stats' = <<0, 0, 0, 0, 0>>
        ELSE IF tokens = << >>
        THEN /\ target_tokens' = tokens
             /\ pc' = "returned"
             /\ stats' = <<0, 0, 0, 0, 0>>
        ELSE /\ target_tokens' = tokens
             /\ pc' = "seed"
             /\ stats' = stats
  /\ UNCHANGED << main_frame, macro_frame, inputs, text_tokens, counters, selected_sentence_tokens,
                  word_selected, fallback_locals, answer, oracle_log,
                  iterations >>

\* Lines 243-252: tokenize the target; characters if the segmenter gives
\* nothing for a non-empty target; the zero result for the empty target.
Tokenize ==
  /\ pc = "start"
  /\ LET tokens == tokenize_with_tinysegmenter(target, tiny_segmenter)
     IN IF tokens = << >> /\ target # << >>
        THEN /\ target_tokens' = [i \in 1..Len(target) |-> <<target[i]>>]
             /\ pc' = "seed"
             /\ stats' = stats
        ELSE IF tokens = << >>
        THEN /\ target_tokens' = tokens
             /\ pc' = "returned"
             /\ stats' = <<0, 0, 0, 0, 0>>
        ELSE /\ target_tokens' = tokens
             /\ pc' = "seed"
             /\ stats' = stats
  /\ UNCHANGED << main_frame, macro_frame, inputs, text_tokens, counters, selected_sentence_tokens,
                  word_selected, fallback_locals, answer, oracle_log,
                  iterations >>

\* Seed that charges the first token the length of its reading.
Seed_ReadingCost ==
  /\ pc = "seed"
  /\ LET best_match_tokens ==
           BestInitialMatch(target, target_tokens, tiny_segmenter).tokens
     IN IF best_match_tokens # << >>
        THEN /\ text_tokens' = best_match_tokens
             /\ total_clicks' = total_clicks + 1
             /\ word_suggestion_used' = word_suggestion_used + 1
             /\ fallback_token_event_count' = fallback_token_event_count
             /\ pc' = "loop"
             /\ stats' = stats
        ELSE IF target_tokens # << >>
        THEN /\ text_tokens' = <<target_tokens[1]>>
             /\ \E line \in TaggerLines(mecab_tagger, target_tokens[1]) :
                  total_clicks' =
                    total_clicks + Len(get_yomigana(target_tokens[1], line))
             /\ word_suggestion_used' = word_suggestion_used
             /\ fallback_token_event_count' = fallback_token_event_count + 1
             /\ pc' = "loop"
             /\ stats' = stats
        ELSE /\ UNCHANGED << text_tokens, total_clicks, word_suggestion_used,
                             fallback_token_event_count >>
             /\ pc' = "returned"
             /\ stats' = <<0, 0, 0, 0, 0>>
  /\ UNCHANGED << main_frame, macro_frame, inputs, target_tokens, sentence_suggestion_used,
                  selected_sentence_tokens, word_selected, fallback_locals,
                  answer, oracle_log, iterations >>

\* Lines 255-302: the initial phase.  The best initial phrase for 1 click,
\* counted as a word suggestion; else the first token for 2 clicks, counted
\* as a fallback event.
Seed ==
  /\ pc = "seed"
  /\ LET best_match_tokens ==
           BestInitialMatch(target, target_tokens, tiny_segmenter).tokens
     IN IF best_match_tokens # << >>
        THEN /\ text_tokens' = best_match_tokens
             /\ total_clicks' = total_clicks + 1
             /\ word_suggestion_used' = word_suggestion_used + 1
             /\ fallback_token_event_count' = fallback_token_event_count
             /\ pc' = "loop"
             /\ stats' = stats
        ELSE IF target_tokens # << >>
        THEN /\ text_tokens' = <<target_tokens[1]>>
             /\ total_clicks' = total_clicks + 2
             /\ word_suggestion_used' = word_suggestion_used
             /\ fallback_token_event_count' = fallback_token_event_count + 1
             /\ pc' = "loop"
             /\ stats' = stats
        ELSE /\ UNCHANGED << text_tokens, total_clicks, word_suggestion_used,
                             fallback_token_event_count >>
             /\ pc' = "returned"
             /\ stats' = <<0, 0, 0, 0, 0>>
  /\ UNCHANGED << main_frame, macro_frame, inputs, target_tokens, sentence_suggestion_used,
                  selected_sentence_tokens, word_selected, fallback_locals,
                  answer, oracle_log, iterations >>

\* SentenceQuery that asks the oracle without a context.
SentenceQuery_NoContext ==
  /\ pc = "loop"
  /\ text_tokens # target_tokens
  /\ llm_context' = << >>
  /\ IF RunMacroRaises(oracle)
     THEN /\ pc' = "error_exit"
          /\ UNCHANGED answer
     ELSE /\ \E raw \in OracleResponses(oracle, "sentence", llm_context') :
               /\ response' = raw
               /\ reply' = sentence_suggestions(parse_response(raw))
          /\ pc' = "sentence_reply"
  /\ sentence_calls' = sentence_calls + 1
  /\ iterations' = iterations + 1
  /\ selected_sentence_tokens' = << >>
  /\ word_selected' = FALSE
  /\ yomigana_hiragana' = << >>
  /\ typed_chars_count_for_token' = 0
  /\ suggestion_taken_for_this_token' = FALSE
  /\ UNCHANGED << main_frame, macro_frame, inputs, target_tokens, text_tokens, counters, word_calls,
                  stats >>

\* Lines 305-311: the loop test holds, the step starts and asks the oracle
\* for sentences with the typed surface as context.  The locals of the
\* step before are dead here (each is assigned again before it is read:
\* lines 312, 340, 377-383), and the model forgets them.
SentenceQuery ==
  /\ pc = "loop"
  /\ text_tokens # target_tokens
  /\ llm_context' = IF text_tokens # << >> THEN Join(text_tokens) ELSE << >>
  /\ IF RunMacroRaises(oracle)
     THEN /\ pc' = "error_exit"
          /\ UNCHANGED answer
     ELSE /\ \E raw \in OracleResponses(oracle, "sentence", llm_context') :
               /\ response' = raw
               /\ reply' = sentence_suggestions(parse_response(raw))
          /\ pc' = "sentence_reply"
  /\ sentence_calls' = sentence_calls + 1
  /\ iterations' = iterations + 1
  /\ selected_sentence_tokens' = << >>
  /\ word_selected' = FALSE
  /\ yomigana_hiragana' = << >>
  /\ typed_chars_count_for_token' = 0
  /\ suggestion_taken_for_this_token' = FALSE
  /\ UNCHANGED << main_frame, macro_frame, inputs, target_tokens, text_tokens, counters, word_calls,
                  stats >>

\* Lines 312-337: take the suggested sentence with the longest common
\* prefix beyond the typed tokens, for 1 click; else go on to the words.
SentenceSelect ==
  /\ pc = "sentence_reply"
  /\ LET selected ==
           SelectSentence(reply, target_tokens, text_tokens, tiny_segmenter)
     IN /\ selected_sentence_tokens' = selected
        /\ IF selected # << >>
           THEN /\ text_tokens' = selected
                /\ total_clicks' = total_clicks + 1
                /\ sentence_suggestion_used' = sentence_suggestion_used + 1
                /\ pc' = AfterSelection(selected)
           ELSE /\ UNCHANGED << text_tokens, total_clicks,
                                sentence_suggestion_used >>
                /\ pc' = "word"
  /\ response' = NoCall
  /\ reply' = << >>
  /\ UNCHANGED << main_frame, macro_frame, inputs, target_tokens, word_suggestion_used,
                  fallback_token_event_count, word_selected, fallback_locals,
                  oracle_log, iterations, stats >>

\* Lines 340-342: ask the oracle for words if tokens are missing.
WordQuery ==
  /\ pc = "word"
  /\ word_selected' = FALSE
  /\ IF Len(text_tokens) < Len(target_tokens)
     THEN /\ llm_context' = Join(text_tokens)
          /\ word_calls' = word_calls + 1
          /\ IF RunMacroRaises(oracle)
             THEN /\ pc' = "error_exit"
                  /\ UNCHANGED answer
             ELSE /\ \E raw \in OracleResponses(oracle, "word", llm_context') :
                       /\ response' = raw
                       /\ reply' = word_suggestions(parse_response(raw))
                  /\ pc' = "word_reply"
     ELSE /\ UNCHANGED << answer, llm_context, word_calls >>
          /\ pc' = "fallback"
  /\ UNCHANGED << main_frame, macro_frame, inputs, target_tokens, text_tokens, counters,
                  selected_sentence_tokens, fallback_locals, sentence_calls,
                  iterations, stats >>

\* Lines 343-365: take the first word candidate whose tokens are the next
\* tokens of the target, for 1 click; else go on to the fallback.
WordSelect ==
  /\ pc = "word_reply"
  /\ LET rank == WordLoop(reply, target_tokens, text_tokens, tiny_segmenter, 1)
         word_candidate_tokens ==
           tokenize_with_tinysegmenter(reply[rank], tiny_segmenter)
     IN IF rank > 0
        THEN /\ text_tokens' = text_tokens \o word_candidate_tokens
             /\ total_clicks' = total_clicks + 1
             /\ word_suggestion_used' = word_suggestion_used + 1
             /\ word_selected' = TRUE
             /\ pc' = AfterSelection(text_tokens \o word_candidate_tokens)
        ELSE /\ UNCHANGED << text_tokens, total_clicks, word_suggestion_used,
                             word_selected >>
             /\ pc' = "fallback"
  /\ response' = NoCall
  /\ reply' = << >>
  /\ UNCHANGED << main_frame, macro_frame, inputs, target_tokens, sentence_suggestion_used,
                  fallback_token_event_count, selected_sentence_tokens,
                  fallback_locals, oracle_log, iterations, stats >>

\* Lines 368-384: the defensive length check, then the reading of the next
\* target token from the analyser; enumerate(None) raises TypeError when
\* get_yomigana has returned None.
FallbackBegin ==
  /\ pc = "fallback"
  /\ IF Len(text_tokens) >= Len(target_tokens)
     THEN /\ pc' = "exit"
          /\ UNCHANGED fallback_locals
     ELSE /\ \E output \in Parse(mecab_tagger, next_target_surface_token) :
               LET found == Lookup(next_target_surface_token, output)
               IN /\ yomigana_hiragana' = found.yomi
                  /\ pc' = IF found.none THEN "error_exit" ELSE "typing"
          /\ typed_chars_count_for_token' = 0
          /\ suggestion_taken_for_this_token' = FALSE
  /\ UNCHANGED << main_frame, macro_frame, inputs, target_tokens, text_tokens, counters,
                  selected_sentence_tokens, word_selected, answer, oracle_log,
                  iterations, stats >>

\* TypeChar that counts the click of a character when it is typed, and again
\* when the token is committed.
TypeChar_Charged ==
  /\ pc = "typing"
  /\ typed_chars_count_for_token < Len(yomigana_hiragana)
  /\ typed_chars_count_for_token' = typed_chars_count_for_token + 1
  /\ total_clicks' = total_clicks + 1
  /\ llm_context' = Join(text_tokens)
                      \o Take(yomigana_hiragana, typed_chars_count_for_token + 1)
  /\ word_calls' = word_calls + 1
  /\ IF RunMacroRaises(oracle)
     THEN /\ pc' = "error_exit"
          /\ UNCHANGED answer
     ELSE /\ \E raw \in OracleResponses(oracle, "word", llm_context') :
               /\ response' = raw
               /\ reply' = word_suggestions(parse_response(raw))
          /\ pc' = "char_reply"
  /\ UNCHANGED << main_frame, macro_frame, inputs, target_tokens, text_tokens,
                  sentence_suggestion_used, word_suggestion_used,
                  fallback_token_event_count, selected_sentence_tokens,
                  word_selected, yomigana_hiragana,
                  suggestion_taken_for_this_token, sentence_calls, iterations,
                  stats >>

\* TypeChar that asks the oracle with the committed text only.
TypeChar_CommittedContext ==
  /\ pc = "typing"
  /\ typed_chars_count_for_token < Len(yomigana_hiragana)
  /\ typed_chars_count_for_token' = typed_chars_count_for_token + 1
  /\ llm_context' = Join(text_tokens)
  /\ word_calls' = word_calls + 1
  /\ IF RunMacroRaises(oracle)
     THEN /\ pc' = "error_exit"
          /\ UNCHANGED answer
     ELSE /\ \E raw \in OracleResponses(oracle, "word", llm_context') :
               /\ response' = raw
               /\ reply' = word_suggestions(parse_response(raw))
          /\ pc' = "char_reply"
  /\ UNCHANGED << main_frame, macro_frame, inputs, target_tokens, text_tokens, counters,
                  selected_sentence_tokens, word_selected, yomigana_hiragana,
                  suggestion_taken_for_this_token, sentence_calls, iterations,
                  stats >>

\* Lines 385-394: type the next character of the reading (1 click, added
\* when the token is committed) and ask the oracle for words with the typed
\* surface and the characters typed for this token as context.
TypeChar ==
  /\ pc = "typing"
  /\ typed_chars_count_for_token < Len(yomigana_hiragana)
  /\ typed_chars_count_for_token' = typed_chars_count_for_token + 1
  /\ llm_context' = Join(text_tokens)
                      \o Take(yomigana_hiragana, typed_chars_count_for_token + 1)
  /\ word_calls' = word_calls + 1
  /\ IF RunMacroRaises(oracle)
     THEN /\ pc' = "error_exit"
          /\ UNCHANGED answer
     ELSE /\ \E raw \in OracleResponses(oracle, "word", llm_context') :
               /\ response' = raw
               /\ reply' = word_suggestions(parse_response(raw))
          /\ pc' = "char_reply"
  /\ UNCHANGED << main_frame, macro_frame, inputs, target_tokens, text_tokens, counters,
                  selected_sentence_tokens, word_selected, yomigana_hiragana,
                  suggestion_taken_for_this_token, sentence_calls, iterations,
                  stats >>

\* CharSelect that counts a hit as a word event and as a fallback event.
CharSelect_BothEvents ==
  /\ pc = "char_reply"
  /\ IF CharHit(reply, next_target_surface_token)
     THEN /\ text_tokens' = Append(text_tokens, next_target_surface_token)
          /\ total_clicks' = total_clicks + typed_chars_count_for_token + 1
          /\ word_suggestion_used' = word_suggestion_used + 1
          /\ fallback_token_event_count' = fallback_token_event_count + 1
          /\ suggestion_taken_for_this_token' = TRUE
          /\ pc' = "loop"
     ELSE /\ UNCHANGED << text_tokens, total_clicks, word_suggestion_used,
                          fallback_token_event_count,
                          suggestion_taken_for_this_token >>
          /\ pc' = "typing"
  /\ response' = NoCall
  /\ reply' = << >>
  /\ UNCHANGED << main_frame, macro_frame, inputs, target_tokens, sentence_suggestion_used,
                  selected_sentence_tokens,
                  word_selected, yomigana_hiragana,
                  typed_chars_count_for_token, oracle_log, iterations, stats >>

\* Lines 396-410: a suggestion that is the token being typed commits it for
\* the typed characters plus 1 click, as a word suggestion, and ends the
\* character loop; else the typing goes on.
CharSelect ==
  /\ pc = "char_reply"
  /\ IF CharHit(reply, next_target_surface_token)
     THEN /\ text_tokens' = Append(text_tokens, next_target_surface_token)
          /\ total_clicks' = total_clicks + typed_chars_count_for_token + 1
          /\ word_suggestion_used' = word_suggestion_used + 1
          /\ suggestion_taken_for_this_token' = TRUE
          /\ pc' = "loop"
     ELSE /\ UNCHANGED << text_tokens, total_clicks, word_suggestion_used,
                          suggestion_taken_for_this_token >>
          /\ pc' = "typing"
  /\ response' = NoCall
  /\ reply' = << >>
  /\ UNCHANGED << main_frame, macro_frame, inputs, target_tokens, sentence_suggestion_used,
                  fallback_token_event_count, selected_sentence_tokens,
                  word_selected, yomigana_hiragana,
                  typed_chars_count_for_token, oracle_log, iterations, stats >>

\* DirectInput at the flat cost of one click per token.
DirectInput_Flat ==
  /\ pc = "typing"
  /\ typed_chars_count_for_token = Len(yomigana_hiragana)
  /\ ~suggestion_taken_for_this_token
  /\ text_tokens' = Append(text_tokens, next_target_surface_token)
  /\ total_clicks' = total_clicks + 1
  /\ fallback_token_event_count' = fallback_token_event_count + 1
  /\ pc' = "loop"
  /\ UNCHANGED << main_frame, macro_frame, inputs, target_tokens, sentence_suggestion_used,
                  word_suggestion_used, selected_sentence_tokens,
                  word_selected, fallback_locals, answer, oracle_log,
                  iterations, stats >>

\* DirectInput that puts the typed reading in the place of the token.
DirectInput_StoresReading ==
  /\ pc = "typing"
  /\ typed_chars_count_for_token = Len(yomigana_hiragana)
  /\ ~suggestion_taken_for_this_token
  /\ text_tokens' = Append(text_tokens, yomigana_hiragana)
  /\ target_tokens' =
       [target_tokens EXCEPT ![Len(text_tokens) + 1] = yomigana_hiragana]
  /\ total_clicks' = total_clicks + typed_chars_count_for_token
  /\ fallback_token_event_count' = fallback_token_event_count + 1
  /\ pc' = "loop"
  /\ UNCHANGED << main_frame, macro_frame, inputs, sentence_suggestion_used,
                  word_suggestion_used, selected_sentence_tokens,
                  word_selected, fallback_locals, answer, oracle_log,
                  iterations, stats >>

\* Lines 412-420: the whole reading was typed without a hit; the token is
\* committed for the typed characters, as a fallback event.
DirectInput ==
  /\ pc = "typing"
  /\ typed_chars_count_for_token = Len(yomigana_hiragana)
  /\ ~suggestion_taken_for_this_token
  /\ text_tokens' = Append(text_tokens, next_target_surface_token)
  /\ total_clicks' = total_clicks + typed_chars_count_for_token
  /\ fallback_token_event_count' = fallback_token_event_count + 1
  /\ pc' = "loop"
  /\ UNCHANGED << main_frame, macro_frame, inputs, target_tokens, sentence_suggestion_used,
                  word_suggestion_used, selected_sentence_tokens,
                  word_selected, fallback_locals, answer, oracle_log,
                  iterations, stats >>

\* Lines 305 and 422-426: the loop is over (its test fails, or a break left
\* it) and the result is returned.
Return ==
  /\ \/ pc = "loop" /\ text_tokens = target_tokens
     \/ pc = "exit"
  /\ stats' = << total_clicks, sentence_suggestion_used, word_suggestion_used,
                 fallback_token_event_count, Len(Join(target_tokens)) >>
  /\ pc' = "returned"
  /\ UNCHANGED << main_frame, macro_frame, inputs, target_tokens, text_tokens, counters,
                  selected_sentence_tokens, word_selected, fallback_locals,
                  answer, oracle_log, iterations >>

\* ReadLine whose click counter lives on from one line to the next.
ReadLine_Stale ==
  /\ pc = "main"
  /\ stdin # << >>
  /\ stdin' = Tail(stdin)
  /\ IF Head(stdin) = << >>
     THEN UNCHANGED << target, line_count, target_yomigana, target_tokens,
                       text_tokens, counters, selected_sentence_tokens,
                       word_selected, fallback_locals, answer, oracle_log,
                       iterations, stats, pc >>
     ELSE /\ target' = Head(stdin)
          /\ line_count' = line_count + 1
          /\ \E nodes \in MecabNodes(mecab_tagger, Head(stdin)) :
               target_yomigana' = get_sentence_yomigana(nodes)
          /\ target_tokens' = << >>
          /\ text_tokens' = << >>
          /\ total_clicks' = total_clicks
          /\ sentence_suggestion_used' = 0
          /\ word_suggestion_used' = 0
          /\ fallback_token_event_count' = 0
          /\ selected_sentence_tokens' = << >>
          /\ word_selected' = FALSE
          /\ yomigana_hiragana' = << >>
          /\ typed_chars_count_for_token' = 0
          /\ suggestion_taken_for_this_token' = FALSE
          /\ response' = NoCall
          /\ reply' = << >>
          /\ llm_context' = << >>
          /\ sentence_calls' = 0
          /\ word_calls' = 0
          /\ iterations' = 0
          /\ stats' = << >>
          /\ pc' = "start"
  /\ UNCHANGED << macro_frame, tiny_segmenter, mecab_tagger, oracle,
                  main_totals,
                  total_keyboard_input, main_locals, previous_log,
                  report >>

\* Lines 457-469: main reads the next line.  A blank line is skipped; else
\* the line is counted, its whole reading is taken from the analyser, and
\* simulate_japanese is entered with fresh locals (lines 255-259).
ReadLine ==
  /\ pc = "main"
  /\ stdin # << >>
  /\ stdin' = Tail(stdin)
  /\ IF Head(stdin) = << >>
     THEN UNCHANGED << target, line_count, target_yomigana, target_tokens,
                       text_tokens, counters, selected_sentence_tokens,
                       word_selected, fallback_locals, answer, oracle_log,
                       iterations, stats, pc >>
     ELSE /\ target' = Head(stdin)
          /\ line_count' = line_count + 1
          /\ \E nodes \in MecabNodes(mecab_tagger, Head(stdin)) :
               target_yomigana' = get_sentence_yomigana(nodes)
          /\ target_tokens' = << >>
          /\ text_tokens' = << >>
          /\ total_clicks' = 0
          /\ sentence_suggestion_used' = 0
          /\ word_suggestion_used' = 0
          /\ fallback_token_event_count' = 0
          /\ selected_sentence_tokens' = << >>
          /\ word_selected' = FALSE
          /\ yomigana_hiragana' = << >>
          /\ typed_chars_count_for_token' = 0
          /\ suggestion_taken_for_this_token' = FALSE
          /\ response' = NoCall
          /\ reply' = << >>
          /\ llm_context' = << >>
          /\ sentence_calls' = 0
          /\ word_calls' = 0
          /\ iterations' = 0
          /\ stats' = << >>
          /\ pc' = "start"
  /\ UNCHANGED << macro_frame, tiny_segmenter, mecab_tagger, oracle,
                  main_totals,
                  total_keyboard_input, main_locals, previous_log,
                  report >>

\* Accumulate that keeps the result of the last line as the totals.
Accumulate_Overwrite ==
  /\ pc = "returned"
  /\ IF stats # << >>
     THEN /\ clicks' = stats[1]
          /\ s_count' = stats[2]
          /\ w_count' = stats[3]
          /\ fb_count' = stats[4]
          /\ target_len' = stats[5]
     ELSE UNCHANGED main_locals
  /\ IF target_len' = Unbound
     THEN /\ pc' = "error_exit"
          /\ UNCHANGED << main_totals, total_keyboard_input >>
     ELSE /\ total_target_char_length' = target_len'
          /\ cumulative_total_clicks' = clicks'
          /\ total_sentence_count' = s_count'
          /\ total_word_count' = w_count'
          /\ total_fallback_event_count' = fb_count'
          /\ total_keyboard_input' = total_keyboard_input + Len(target_yomigana)
          /\ pc' = "main"
  /\ previous_log' = << iterations, sentence_calls, word_calls >>
  /\ UNCHANGED << macro_frame, stdin, line_count, target_yomigana, report,
                  inputs,
                  target_tokens, text_tokens, counters,
                  selected_sentence_tokens, word_selected, fallback_locals,
                  answer, oracle_log, iterations, stats >>

\* Lines 470-484: simulate_japanese has returned.  main unpacks the result,
\* or on None keeps what its locals hold (an unassigned local is an
\* UnboundLocalError), adds the locals to the totals and the length of the
\* line's reading to the keyboard baseline, and goes for the next line.
Accumulate ==
  /\ pc = "returned"
  /\ IF stats # << >>
     THEN /\ clicks' = stats[1]
          /\ s_count' = stats[2]
          /\ w_count' = stats[3]
          /\ fb_count' = stats[4]
          /\ target_len' = stats[5]
     ELSE UNCHANGED main_locals
  /\ IF target_len' = Unbound
     THEN /\ pc' = "error_exit"
          /\ UNCHANGED << main_totals, total_keyboard_input >>
     ELSE /\ total_target_char_length' = total_target_char_length + target_len'
          /\ cumulative_total_clicks' = cumulative_total_clicks + clicks'
          /\ total_sentence_count' = total_sentence_count + s_count'
          /\ total_word_count' = total_word_count + w_count'
          /\ total_fallback_event_count' = total_fallback_event_count + fb_count'
          /\ total_keyboard_input' = total_keyboard_input + Len(target_yomigana)
          /\ pc' = "main"
  /\ previous_log' = << iterations, sentence_calls, word_calls >>
  /\ UNCHANGED << macro_frame, stdin, line_count, target_yomigana, report,
                  inputs,
                  target_tokens, text_tokens, counters,
                  selected_sentence_tokens, word_selected, fallback_locals,
                  answer, oracle_log, iterations, stats >>

\* Lines 486-497: the input is at its end; main prints the cumulative
\* results, or that the input was empty, and returns, unless the printing
\* raises.
Finish ==
  /\ pc = "main"
  /\ stdin = << >>
  /\ report' =
       IF line_count > 0
       THEN print_cumulative_stats(
              total_target_char_length, cumulative_total_clicks,
              total_sentence_count, total_word_count,
              total_fallback_event_count, total_keyboard_input)
       ELSE EmptyInput
  /\ pc' = IF report'.outcome = "UnboundLocalError" THEN "error_exit"
           ELSE "done"
  /\ UNCHANGED << macro_frame, stdin, line_count, main_totals,
                  total_keyboard_input, target_yomigana, main_locals,
                  previous_log, inputs,
                  target_tokens, text_tokens, counters,
                  selected_sentence_tokens, word_selected, fallback_locals,
                  answer, oracle_log, iterations, stats >>

\* Lines 529-534: an exception has left main; the handler prints the
\* traceback and the program ends, the lines left unread.
Abort ==
  /\ pc = "error_exit"
  /\ pc' = "aborted"
  /\ UNCHANGED << main_frame, macro_frame, inputs, target_tokens, text_tokens, counters,
                  selected_sentence_tokens, word_selected, fallback_locals,
                  answer, oracle_log, iterations, stats >>

\* Lines 647-664 of macro.py: one turn of the loop of RunMacro over the
\* lines of the template.  '#ifdef key' pushes whether user_inputs holds
\* something for the key, '#else' pops the top and pushes its negation,
\* '#endif' pops, a pop from the empty list being an IndexError; these and
\* the '#copybara:' lines are dropped, and any other line is kept when
\* every condition of the stack holds.
ExpandLine ==
  /\ pc = "expand"
  /\ line_index < Len(template)
  /\ line_index' = line_index + 1
  /\ LET line == template[line_index + 1]
         top == include_block[Len(include_block)]
         popped == SubSeq(include_block, 1, Len(include_block) - 1)
     IN  IF line.kind = "ifdef"
         THEN /\ include_block' =
                   Append(include_block, is_defined(user_inputs, line.key))
              /\ UNCHANGED << lines, pc >>
         ELSE IF line.kind \in {"else", "endif"} /\ include_block = << >>
         THEN /\ pc' = "raised"
              /\ UNCHANGED << include_block, lines >>
         ELSE IF line.kind = "else"
         THEN /\ include_block' = Append(popped, ~top)
              /\ UNCHANGED << lines, pc >>
         ELSE IF line.kind = "endif"
         THEN /\ include_block' = popped
              /\ UNCHANGED << lines, pc >>
         ELSE IF line.kind = "copybara"
         THEN UNCHANGED << include_block, lines, pc >>
         ELSE /\ lines' = IF all(include_block) THEN Append(lines, line)
                          ELSE lines
              /\ UNCHANGED << include_block, pc >>
  /\ UNCHANGED << macro_id, user_inputs, template, prompt, main_frame, inputs,
                  target_tokens, text_tokens, counters,
                  selected_sentence_tokens, word_selected, fallback_locals,
                  answer, oracle_log, iterations, stats >>

\* Lines 665-677: the loop is over; the kept lines are joined to the prompt
\* that, its placeholders filled in, goes to RunGeminiMacro.
Prompt ==
  /\ pc = "expand"
  /\ line_index = Len(template)
  /\ prompt' = JoinLines(lines, 1, << >>)
  /\ pc' = "expanded"
  /\ UNCHANGED << macro_id, user_inputs, template, line_index, include_block,
                  lines, main_frame, inputs, target_tokens, text_tokens,
                  counters, selected_sentence_tokens, word_selected,
                  fallback_locals, answer, oracle_log, iterations, stats >>

Next ==
  \/ Tokenize
  \/ Seed
  \/ SentenceQuery
  \/ SentenceSelect
  \/ WordQuery
  \/ WordSelect
  \/ FallbackBegin
  \/ TypeChar
  \/ CharSelect
  \/ DirectInput
  \/ Return

Spec == Init /\ [][Next]_vars

\* The code runs on: every step that can be taken is taken.
FairSpec == Spec /\ WF_vars(Next)

\* One simulation with the oracle that never suggests anything and the
\* analyser of a dictionary.
EmptyInit == Simulation({"empty"}, Dictionaries)

EmptySpec == EmptyInit /\ [][Next]_vars

\* One simulation with an oracle that answers anything and the analyser of
\* a dictionary.
DictInit == Simulation({"live"}, Dictionaries)

DictSpec == DictInit /\ [][Next]_vars

\* The input of main: the same sentence on 2 lines, a blank line between
\* them or not.
Batches ==
  {<<t, t>> : t \in Targets \ {<< >>}}
    \cup {<<t, << >>, t>> : t \in Targets \ {<< >>}}

\* main at its loop, with an oracle that is a function of mode and context
\* or that cannot be reached, and the analyser of a dictionary.
BatchInit ==
  /\ target = << >>
  /\ stdin \in Batches
  /\ pc = "main"
  /\ Entry(Stubs \cup {"down"}, Dictionaries)

BatchNext ==
  \/ Next
  \/ ReadLine
  \/ Accumulate
  \/ Finish
  \/ Abort

BatchSpec == BatchInit /\ [][BatchNext]_vars

\* main at the end of its input, its totals any numbers up to MaxTotal:
\* the call of print_cumulative_stats with any arguments, or none when no
\* line was counted.
ReportInit ==
  /\ target = << >>
  /\ stdin = << >>
  /\ pc = "main"
  /\ tiny_segmenter = "chars"
  /\ oracle = "empty"
  /\ mecab_tagger = "unknown"
  /\ line_count \in {0, 1}
  /\ total_target_char_length \in 0..MaxTotal
  /\ cumulative_total_clicks \in 0..MaxTotal
  /\ total_sentence_count \in 0..MaxTotal
  /\ total_word_count \in 0..MaxTotal
  /\ total_fallback_event_count \in 0..MaxTotal
  /\ total_keyboard_input \in 0..MaxTotal
  /\ target_yomigana = << >>
  /\ clicks = Unbound
  /\ s_count = Unbound
  /\ w_count = Unbound
  /\ fb_count = Unbound
  /\ target_len = Unbound
  /\ previous_log = << >>
  /\ report = NoReport
  /\ NoExpansion
  /\ Locals

ReportNext ==
  \/ Finish
  \/ Abort

ReportSpec == ReportInit /\ [][ReportNext]_vars

\* One simulation with the segmenter that returns no token, an oracle that
\* answers anything and an analyser that prints any line.
MuteInit ==
  /\ target \in Targets
  /\ stdin = << >>
  /\ pc = "start"
  /\ tiny_segmenter = Mute
  /\ oracle = "live"
  /\ mecab_tagger = "any"
  /\ MainEntry
  /\ Locals

MuteSpec == MuteInit /\ [][Next]_vars

\* One simulation with an oracle that answers anything and an analyser that
\* prints no line of a word.
FaultInit == Simulation({"live"}, Faults)

FaultSpec == FaultInit /\ [][Next]_vars

\* One simulation with the oracle that ranks 3 sentences and an analyser
\* that prints any line.
RankedInit == Simulation({"ranked"}, {"any"})

RankedSpec == RankedInit /\ [][Next]_vars

\* The code runs on: every step that can be taken is taken.
MuteFairSpec == MuteSpec /\ WF_vars(Next)

\* RunMacro at its loop, called with language, num and text and with any of
\* the other keys, for a template of TEMPLATES or for a draft; the
\* simulator is at rest.
MacroInit ==
  /\ \/ /\ macro_id \in DOMAIN TEMPLATES
        /\ template = TEMPLATES[macro_id]
        /\ user_inputs \in UserInputs
     \/ /\ macro_id = Draft
        /\ template \in Drafts
        /\ user_inputs \in DraftInputs
  /\ line_index = 0
  /\ include_block = << >>
  /\ lines = << >>
  /\ prompt = << >>
  /\ pc = "expand"
  /\ target = << >>
  /\ stdin = << >>
  /\ tiny_segmenter = "chars"
  /\ oracle = "live"
  /\ mecab_tagger = "any"
  /\ line_count = 0
  /\ total_target_char_length = 0
  /\ cumulative_total_clicks = 0
  /\ total_sentence_count = 0
  /\ total_word_count = 0
  /\ total_fallback_event_count = 0
  /\ total_keyboard_input = 0
  /\ target_yomigana = << >>
  /\ clicks = Unbound
  /\ s_count = Unbound
  /\ w_count = Unbound
  /\ fb_count = Unbound
  /\ target_len = Unbound
  /\ previous_log = << >>
  /\ report = NoReport
  /\ Locals

MacroNext ==
  \/ ExpandLine
  \/ Prompt

MacroSpec == MacroInit /\ [][MacroNext]_vars

\* ------------------------------------------------------------ properties
\* The places inside one step of the while loop.
BodyPcs ==
  {"sentence_reply", "word", "word_reply", "fallback", "typing", "char_reply"}

\* The places of the fallback of a step.
FallbackPcs == {"fallback", "typing", "char_reply"}

\* The places after the initial phase of a non-empty target.
SeededPcs == BodyPcs \cup {"loop", "exit"}

Seeded == pc \in SeededPcs \/ (pc = "returned" /\ target_tokens # << >>)

InBody == IF pc \in BodyPcs THEN 1 ELSE 0

Events ==
  sentence_suggestion_used + word_suggestion_used + fallback_token_event_count

SetMax(S) == CHOOSE x \in S : \A y \in S : y <= x

SetMin(S) == CHOOSE x \in S : \A y \in S : x <= y

\* The tokens of candidate i of the reply the code is looking at.
ReplyTokens(i) == tokenize_with_tinysegmenter(reply[i], tiny_segmenter)

\* The phrases that match the target: the target starts with the phrase and
\* the target's tokens start with the phrase's tokens.
MatchingPhrases ==
  { i \in 1..Len(INITIAL_PHRASES_JA) :
      /\ StartsWith(target, INITIAL_PHRASES_JA[i])
      /\ StartsWith(target_tokens,
           tokenize_with_tinysegmenter(INITIAL_PHRASES_JA[i], tiny_segmenter)) }

\* The longest matching phrase, the earliest of the list among equals.
LongestMatchingPhrase ==
  CHOOSE i \in MatchingPhrases : \A j \in MatchingPhrases :
    \/ Len(INITIAL_PHRASES_JA[j]) < Len(INITIAL_PHRASES_JA[i])
    \/ Len(INITIAL_PHRASES_JA[j]) = Len(INITIAL_PHRASES_JA[i]) /\ i <= j

\* The number of tokens the initial phase types.
SeedLen ==
  IF MatchingPhrases # {}
  THEN Len(tokenize_with_tinysegmenter(
             INITIAL_PHRASES_JA[LongestMatchingPhrase], tiny_segmenter))
  ELSE 1

\* C1: for every target and whatever the oracle answers, simulate_japanese
\* comes to its return, and the typed tokens are then the target's tokens.
C1_Terminates == <>(pc = "returned" /\ text_tokens = target_tokens)

\* A returned simulation of a three-token target that took two steps.
C1_Witness ==
  /\ pc = "returned"
  /\ Len(target_tokens) = 3
  /\ text_tokens = target_tokens
  /\ iterations = 2

\* C2: no step removes or changes a typed token (the typed tokens before a
\* step start the typed tokens after it), and after the initial phase the
\* typed tokens start the target's tokens.
C2_PrefixMonotone ==
  [][ /\ StartsWith(text_tokens', text_tokens)
      /\ (pc' \notin {"start", "seed"}
            => StartsWith(target_tokens', text_tokens')) ]_vars

\* Three tokens typed by the initial phase, a sentence and a word.
C2_Witness ==
  /\ Len(text_tokens) = 3
  /\ sentence_suggestion_used = 1
  /\ word_suggestion_used = 1
  /\ fallback_token_event_count = 1

\* C3: a step of the loop starts with fewer typed tokens than the target has
\* and ends with at least one more, so the steps taken are at most the
\* tokens typed since the initial phase (one more while a step is running),
\* hence at most the target tokens the initial phase left.
C3_Progress ==
  Seeded =>
    /\ pc \in BodyPcs => Len(text_tokens) < Len(target_tokens)
    /\ iterations + SeedLen <= Len(text_tokens) + InBody
    /\ iterations + SeedLen <= Len(target_tokens)

\* As many steps as the initial phase left tokens, each typing one.
C3_Witness ==
  /\ pc = "returned"
  /\ SeedLen = 1
  /\ Len(target_tokens) = 3
  /\ iterations = 2

\* C4: in one step the oracle is asked for words only when no sentence was
\* taken, the fallback runs only when neither a sentence nor a word was
\* taken, and one strategy commits: every finished step has counted exactly
\* one event.
C4_StrictPriority ==
  Seeded =>
    /\ pc \in {"word", "word_reply"} \cup FallbackPcs
         => selected_sentence_tokens = << >>
    /\ pc \in FallbackPcs => ~word_selected
    /\ Events = 1 + iterations - InBody

\* The fallback types a character after the sentences and the words of the
\* second step were refused.
C4_Witness ==
  /\ pc = "char_reply"
  /\ reply # << >>
  /\ iterations = 2
  /\ word_calls >= 2

\* The lengths of the common prefixes of the suggested sentences with the
\* target.
C5_PrefixLens ==
  { Len(common_prefix(target_tokens, ReplyTokens(i))) : i \in 1..Len(reply) }

\* C5: a suggested sentence is taken only if its common prefix with the
\* target is longer than the typed tokens; the longest such prefix is taken,
\* the typed tokens become exactly that prefix, for 1 click and 1 sentence
\* event whatever the number of tokens; otherwise nothing is typed or counted.
C5_SentenceRule ==
  [][ pc = "sentence_reply" =>
        LET best == SetMax(C5_PrefixLens \cup {0})
        IN IF best > Len(text_tokens)
           THEN /\ text_tokens' = Take(target_tokens, best)
                /\ total_clicks' = total_clicks + 1
                /\ sentence_suggestion_used' = sentence_suggestion_used + 1
                /\ UNCHANGED << word_suggestion_used,
                                fallback_token_event_count >>
           ELSE UNCHANGED << text_tokens, counters >> ]_vars

\* A sentence that typed two tokens for one click after a one-token seed.
C5_Witness ==
  /\ pc \in {"loop", "exit"}
  /\ iterations = 1
  /\ sentence_suggestion_used = 1
  /\ selected_sentence_tokens = text_tokens
  /\ Len(text_tokens) = 3
  /\ total_clicks = 3

\* Word candidate i lands exactly: it has tokens, and the typed tokens
\* followed by them start the target's tokens.
C6_Lands(i) ==
  /\ ReplyTokens(i) # << >>
  /\ StartsWith(target_tokens, text_tokens \o ReplyTokens(i))

\* C6: a word candidate is taken only if its tokens are the target's tokens
\* right after the typed ones (one token too many or one different token
\* refuses it); the first such candidate in rank order is taken, for 1 click
\* and 1 word event, and the typed tokens grow by exactly its tokens;
\* otherwise nothing is typed or counted.
C6_WordRule ==
  [][ pc = "word_reply" =>
        LET landing == { i \in 1..Len(reply) : C6_Lands(i) }
        IN IF landing # {}
           THEN /\ text_tokens' = text_tokens \o ReplyTokens(SetMin(landing))
                /\ total_clicks' = total_clicks + 1
                /\ word_suggestion_used' = word_suggestion_used + 1
                /\ UNCHANGED << sentence_suggestion_used,
                                fallback_token_event_count >>
           ELSE UNCHANGED << text_tokens, counters >> ]_vars

\* A word candidate of two tokens taken in the first step.
C6_Witness ==
  /\ pc \in {"loop", "exit"}
  /\ iterations = 1
  /\ word_selected
  /\ sentence_suggestion_used = 0
  /\ Len(text_tokens) = 3
  /\ total_clicks = 3

\* C7: when a suggestion after the k-th typed character is the token being
\* typed, the token is committed for k + 1 clicks as a word event (not a
\* fallback event), and the character loop is over: no oracle call is made
\* in the step and the code is back at the loop test.
C7_FallbackHit ==
  [][ /\ pc = "char_reply"
      /\ \E i \in 1..Len(reply) : reply[i] = target_tokens[Len(text_tokens) + 1]
      => /\ text_tokens' = Append(text_tokens, target_tokens[Len(text_tokens) + 1])
         /\ total_clicks' = total_clicks + typed_chars_count_for_token + 1
         /\ word_suggestion_used' = word_suggestion_used + 1
         /\ UNCHANGED << sentence_suggestion_used, fallback_token_event_count,
                         word_calls, sentence_calls,
                         typed_chars_count_for_token >>
         /\ pc' = "loop" ]_vars

\* A hit after the second character of a reading.
C7_Witness ==
  /\ pc = "loop"
  /\ suggestion_taken_for_this_token
  /\ typed_chars_count_for_token = 2
  /\ text_tokens # << >>

\* C8: when the whole reading was typed without a hit, the token is
\* committed, for as many clicks as the reading has characters and 1
\* fallback event; the sentence and word counts stay.
C8_DirectInput ==
  [][ /\ pc = "typing"
      /\ typed_chars_count_for_token = Len(yomigana_hiragana)
      => /\ text_tokens' = Append(text_tokens, target_tokens[Len(text_tokens) + 1])
         /\ total_clicks' = total_clicks + Len(yomigana_hiragana)
         /\ fallback_token_event_count' = fallback_token_event_count + 1
         /\ UNCHANGED << sentence_suggestion_used, word_suggestion_used >> ]_vars

\* A token committed after both characters of its reading were typed.
C8_Witness ==
  /\ pc = "loop"
  /\ iterations = 1
  /\ ~suggestion_taken_for_this_token
  /\ Len(yomigana_hiragana) = 2
  /\ typed_chars_count_for_token = 2
  /\ Len(text_tokens) = 2

\* C9: the initial phase types the tokens of the longest matching phrase
\* (the earliest among equals) for exactly 1 click; with no matching phrase
\* (a phrase that only starts the target's surface does not match) no
\* phrase is typed.
C9_InitialPhrase ==
  [][ pc = "seed" =>
        IF MatchingPhrases # {}
        THEN /\ text_tokens' = tokenize_with_tinysegmenter(
                   INITIAL_PHRASES_JA[LongestMatchingPhrase], tiny_segmenter)
             /\ total_clicks' = 1
        ELSE /\ total_clicks' # 1
             /\ word_suggestion_used' = 0 ]_vars

\* The one-character phrase was typed for a target that starts with the
\* surface of the two-character phrase, whose token is not a target token.
C9_Witness ==
  /\ pc = "loop"
  /\ iterations = 0
  /\ StartsWith(target, <<"KARE", "JO">>)
  /\ text_tokens = << <<"KARE">> >>
  /\ total_clicks = 1

\* The target is an initial phrase: the phrase's tokens are all its tokens.
C10_ExactPhrase ==
  \E i \in 1..Len(INITIAL_PHRASES_JA) :
    /\ target = INITIAL_PHRASES_JA[i]
    /\ target_tokens =
         tokenize_with_tinysegmenter(INITIAL_PHRASES_JA[i], tiny_segmenter)

\* C10 as claimed: a target that is an initial phrase returns 1 click, no
\* sentence, no word and no fallback event, and the oracle is never asked.
C10_Original ==
  pc = "returned" /\ C10_ExactPhrase =>
    /\ stats[1] = 1 /\ stats[2] = 0 /\ stats[3] = 0 /\ stats[4] = 0
    /\ sentence_calls = 0 /\ word_calls = 0

\* C10: a target that is an initial phrase returns 1 click, no sentence and
\* no fallback event and exactly 1 word event (the choice of the phrase is
\* counted as a word suggestion), and the oracle is never asked.
C10_ExactPhraseResult ==
  pc = "returned" /\ C10_ExactPhrase =>
    /\ stats[1] = 1 /\ stats[2] = 0 /\ stats[3] = 1 /\ stats[4] = 0
    /\ sentence_calls = 0 /\ word_calls = 0

\* The two-character phrase as a target, returned.
C10_Witness ==
  /\ pc = "returned"
  /\ C10_ExactPhrase
  /\ target = <<"KARE", "JO">>
  /\ Len(target_tokens) = 2

\* C11: when no initial phrase matches a non-empty target, the initial phase
\* types exactly the first target token, for exactly 2 clicks whatever the
\* length of the token or of its reading, as 1 fallback event, and asks
\* neither the oracle nor the analyser.
C11_FallbackSeed ==
  [][ pc = "seed" /\ MatchingPhrases = {} /\ target # << >> =>
        /\ text_tokens' = << target_tokens[1] >>
        /\ total_clicks' = 2
        /\ fallback_token_event_count' = 1
        /\ sentence_suggestion_used' = 0
        /\ word_suggestion_used' = 0
        /\ UNCHANGED << oracle_log, answer, fallback_locals >>
        /\ pc' = "loop" ]_vars

\* A first token of three characters typed by the initial phase for 2
\* clicks.
C11_Witness ==
  /\ pc = "loop"
  /\ iterations = 0
  /\ MatchingPhrases = {}
  /\ Len(text_tokens) = 1
  /\ Len(text_tokens[1]) = 3
  /\ total_clicks = 2
  /\ fallback_token_event_count = 1

\* C12: the simulation of the empty string returns at once, from its first
\* step, with clicks, sentence, word and fallback counts and target length
\* all 0, and the oracle is never asked.
C12_EmptyTarget ==
  target = << >> =>
    /\ pc \in {"start", "returned"}
    /\ pc = "returned" => stats = <<0, 0, 0, 0, 0>>
    /\ sentence_calls = 0 /\ word_calls = 0 /\ iterations = 0
    /\ text_tokens = << >>

\* The empty string, simulated.
C12_Witness ==
  /\ target = << >>
  /\ pc = "returned"
  /\ stats = <<0, 0, 0, 0, 0>>

\* C16: when a sentence suggested at the first call is the whole target, it
\* is taken: the typed tokens are the target's, the sentence count is 1,
\* the events are the initial one and this one, no word is asked for, and
\* the simulation leaves the loop and returns these counts.
C16_FullSentenceFirst ==
  [][ /\ (/\ pc = "sentence_reply"
          /\ iterations = 1
          /\ \E i \in 1..Len(reply) : reply[i] = target)
         => (/\ text_tokens' = target_tokens
             /\ total_clicks' = total_clicks + 1
             /\ sentence_suggestion_used' = 1
             /\ word_suggestion_used' + fallback_token_event_count' = 1
             /\ sentence_calls' = 1
             /\ word_calls' = 0
             /\ pc' = "exit")
      /\ pc = "exit"
         => (/\ pc' = "returned"
             /\ stats' = << total_clicks, sentence_suggestion_used,
                            word_suggestion_used, fallback_token_event_count,
                            Len(target) >>) ]_vars

\* A target of three tokens returned after its one step took a sentence
\* that covers it.
C16_Witness ==
  /\ pc = "returned"
  /\ Len(target_tokens) = 3
  /\ iterations = 1
  /\ Join(selected_sentence_tokens) = target
  /\ stats[2] = 1
  /\ stats[1] = 3
  /\ word_calls = 0

\* Where a step goes on when the candidates it looks at are refused.
C20_Refused(at) ==
  IF at = "sentence_reply" THEN "word"
  ELSE IF at = "word_reply" THEN "fallback"
  ELSE IF at = "char_reply" THEN "typing"
  ELSE "error_exit"

\* C20: a response that is empty, not JSON, without messages[0].text or
\* without a numbered line gives no candidate; the step goes on as for an
\* empty list: nothing is typed or counted, no exception ends the
\* simulation, and the next strategy of the step is tried.
C20_MalformedResponse ==
  [][ (response \in Malformed) =>
        /\ reply = << >>
        /\ UNCHANGED << text_tokens, counters >>
        /\ pc' = C20_Refused(pc) ]_vars

\* A text without a numbered line has been read as no word candidate, and
\* the fallback has begun.
C20_Witness ==
  /\ pc = "char_reply"
  /\ response \in Malformed
  /\ response.messages # << >>
  /\ response.messages[1].text # << >>
  /\ reply = << >>
  /\ word_calls = 2

\* The clicks of the initial phase.
SeedCost == IF MatchingPhrases # {} THEN 1 ELSE 2

\* The length of the reading the analyser of the dictionary has for target
\* token i.
ReadingLen(i) ==
  Len(get_yomigana(target_tokens[i], MecabLine(mecab_tagger, target_tokens[i])))

\* The lengths of the readings of target tokens from..to, added up.
RECURSIVE SumReadingLen(_, _)
SumReadingLen(from, to) ==
  IF from > to THEN 0 ELSE ReadingLen(from) + SumReadingLen(from + 1, to)

\* The clicks of the target without any suggestion: the initial phase, then
\* every further token typed by its reading.
NoAssistanceClicks == SeedCost + SumReadingLen(SeedLen + 1, Len(target_tokens))

C15_Original ==
  pc = "returned" /\ target # << >> => stats[1] <= NoAssistanceClicks

\* C14 as claimed: with an oracle that returns the empty list at every
\* call, the clicks simulate_japanese returns for a line are the keystrokes
\* main adds to the keyboard baseline for it, the length of the reading of
\* the whole sentence.
C14_Original ==
  pc = "returned" /\ oracle = "empty" /\ line_count > 0 =>
    stats[1] = Len(target_yomigana)

C18_Original ==
  [][ (/\ RunMacroRaises(oracle)
       /\ pc # "main"
       /\ (sentence_calls' # sentence_calls \/ word_calls' # word_calls))
      => (/\ reply' = << >>
          /\ pc' \in {"sentence_reply", "word_reply", "char_reply"}) ]_vars

\* C19 as claimed: once the simulation of a line has failed, main is back
\* at its loop for the next line with none of its totals changed.
C19_Original ==
  [][ (pc = "error_exit")
      => (/\ pc' = "main"
          /\ UNCHANGED << main_totals, total_keyboard_input >>) ]_vars

\* The ratios of a report, each with the divisor the code divided by.
Divisors(r) == {r.ratios[name][2] : name \in DOMAIN r.ratios}

\* C21 as claimed: whatever non-negative totals print_cumulative_stats is
\* given, it divides by no zero, computes no ratio whose denominator is
\* zero, and completes; without events and with clicks and keystrokes it
\* completes too.
C21_Original ==
  report # NoReport =>
    /\ 0 \notin Divisors(report)
    /\ report.outcome \in {"printed", "N/A", "Empty Input"}

\* C29: inside the while loop the typed tokens are never at least as many
\* as the target's tokens while differing from them; the step comes to the
\* defensive length check with a token of the target still missing, so the
\* check never breaks out of the loop and the fallback's token index is
\* inside the target's tokens.
C29_CheckUnreachable ==
  /\ pc \in BodyPcs =>
       ~(Len(text_tokens) >= Len(target_tokens) /\ text_tokens # target_tokens)
  /\ pc \in {"word", "word_reply"} \cup FallbackPcs =>
       Len(text_tokens) + 1 \in 1..Len(target_tokens)

\* The step stands at the length check of a target of 3 tokens with the
\* last token missing, after a word suggestion and a typed token.
C29_Witness ==
  /\ pc = "fallback"
  /\ Len(target_tokens) = 3
  /\ Len(text_tokens) = 2
  /\ word_suggestion_used >= 1
  /\ iterations >= 2

\* The target cut into one token per character.
Characters(text) == [i \in 1..Len(text) |-> <<text[i]>>]

C23_Degraded ==
  /\ pc # "error_exit"
  /\ pc # "start" /\ target # << >> => target_tokens = Characters(target)
  /\ pc = "returned" /\ target # << >> =>
       /\ text_tokens = Characters(target)
       /\ stats[5] = Len(target)
       /\ stats[1] >= 2
       /\ stats[2] + stats[3] + stats[4] >= 1

\* C23: with a segmenter that returns no token for the non-empty target,
\* the target's tokens are its characters, one token each; the simulation
\* raises nothing and comes to its return, where the typed tokens are these
\* characters and the result counts the target's length, clicks and events
\* (it is not the zero result).
C23_CharacterTokens == [](C23_Degraded) /\ <>(pc = "returned")

\* The return of a target of 3 characters, one of its tokens taken from a
\* suggestion after typing and one typed to the end.
C23_Witness ==
  /\ pc = "returned"
  /\ tiny_segmenter = Mute
  /\ Len(target) = 3
  /\ text_tokens = Characters(target)
  /\ stats[3] >= 1
  /\ stats[4] >= 2

\* C24 as claimed: whatever the analyser does for the token (no line, the
\* bare EOS, an exception), get_yomigana returns a string, the normalized
\* token itself when the analyser gives no reading, and the fallback goes on
\* to type its characters.
C24_Original ==
  [][ (pc = "fallback" /\ mecab_tagger \in Faults)
      => (/\ pc' = "typing"
          /\ yomigana_hiragana' =
               IF IsBlank(next_target_surface_token) THEN << >>
               ELSE katakana_to_hiragana(next_target_surface_token)) ]_vars

\* The totals main has when it has added the given result n times.
C25_Sum(n, result) ==
  << n * result[5], n * result[1], n * result[2], n * result[3],
     n * result[4] >>

C25_AddedOnce ==
  IF pc = "returned"
  THEN /\ pc' = "main"
       /\ main_totals' =
            << total_target_char_length + stats[5],
               cumulative_total_clicks + stats[1],
               total_sentence_count + stats[2],
               total_word_count + stats[3],
               total_fallback_event_count + stats[4] >>
  ELSE UNCHANGED main_totals

\* C25: the totals of main change only in the step that follows the return
\* of a line's simulation, which adds each field of the returned result to
\* its total and goes back to reading; reading a line, blank or not, the
\* steps of a simulation, an exception and the report leave them alone.
\* With the same sentence on every line, the totals between two lines and
\* at the end are the result of the sentence times the lines counted.
C25_Totals ==
  /\ [][C25_AddedOnce]_vars
  /\ [](pc \in {"main", "done"} /\ line_count > 0
          => main_totals = C25_Sum(line_count, stats))

\* The end of 2 lines whose results, with word and fallback events, were
\* each added.
C25_Witness ==
  /\ pc = "done"
  /\ line_count = 2
  /\ stats[1] >= 3
  /\ stats[3] >= 1
  /\ stats[4] >= 1
  /\ cumulative_total_clicks = 2 * stats[1]
  /\ report.outcome = "printed"

\* The candidates of the sentence response the code is looking at, all of
\* them, and the first NUM_SENTENCE_SUGGESTIONS of them.
C26_Ranked == parse_response(response)

C26_Kept == Take(C26_Ranked, NUM_SENTENCE_SUGGESTIONS)

\* C26: of a sentence response with more than 2 candidates, the sentence
\* loop sees the first 2 only: the tokens it selects are those it would
\* select from the first 2, and when neither of these extends the typed
\* tokens, no token is typed and no counter changes, whatever the third
\* candidate is, and the step goes on to the words.
C26_FirstTwoOnly ==
  [][ (pc = "sentence_reply" /\ Len(C26_Ranked) > NUM_SENTENCE_SUGGESTIONS)
      => (/\ reply = C26_Kept
          /\ selected_sentence_tokens' =
               SelectSentence(C26_Kept, target_tokens, text_tokens,
                              tiny_segmenter)
          /\ (selected_sentence_tokens' = << >>
                => (UNCHANGED << text_tokens, counters >> /\ pc' = "word"))
          /\ (selected_sentence_tokens' # << >>
                => text_tokens' = selected_sentence_tokens')) ]_vars

\* The third candidate is the full target and the first 2 extend nothing.
C26_Witness ==
  /\ pc = "sentence_reply"
  /\ Len(C26_Ranked) = 3
  /\ C26_Ranked[3] = target
  /\ Len(target_tokens) >= 2
  /\ SelectSentence(C26_Kept, target_tokens, text_tokens, tiny_segmenter)
       = << >>
  /\ SelectSentence(C26_Ranked, target_tokens, text_tokens, tiny_segmenter)
       = target_tokens

\* C27: in the fallback of a token every typed character is followed by
\* exactly 1 word call, whose context is the typed surface followed by the
\* characters of the reading typed so far, and no other word call is made:
\* from the length check to the commit, the word calls grow as the typed
\* characters do, from 0; the token is committed with the k characters
\* typed at a hit, or with the whole reading typed.
C27_QueryPerCharacter ==
  [][ (pc \in FallbackPcs)
      => (/\ pc = "fallback" => typed_chars_count_for_token' = 0
          /\ word_calls' - word_calls
               = typed_chars_count_for_token' - typed_chars_count_for_token
          /\ word_calls' # word_calls =>
               /\ word_calls' = word_calls + 1
               /\ pc' = "char_reply"
               /\ llm_context' =
                    Join(text_tokens)
                      \o Take(yomigana_hiragana, typed_chars_count_for_token')
          /\ (text_tokens' # text_tokens /\ ~suggestion_taken_for_this_token')
               => typed_chars_count_for_token = Len(yomigana_hiragana)
          /\ pc = "typing" =>
               \/ typed_chars_count_for_token' = typed_chars_count_for_token + 1
               \/ typed_chars_count_for_token = Len(yomigana_hiragana)) ]_vars

\* The second character of a reading was typed after a first without a
\* hit, and the oracle was asked with both.
C27_Witness ==
  /\ pc = "char_reply"
  /\ typed_chars_count_for_token = 2
  /\ text_tokens # << >>
  /\ llm_context = Join(text_tokens) \o Take(yomigana_hiragana, 2)
  /\ word_calls >= 3

C30_OneEvent ==
  /\ Events' = Events + 1
  /\ sentence_suggestion_used' - sentence_suggestion_used \in {0, 1}
  /\ word_suggestion_used' - word_suggestion_used \in {0, 1}
  /\ fallback_token_event_count' - fallback_token_event_count \in {0, 1}

\* C30: a step that changes the clicks adds to them and counts exactly 1
\* event, and a step that counts an event counts exactly 1 and commits at
\* least 1 token; so the events are at most the typed tokens, which are at
\* most the target's tokens, and there are no clicks without an event, in
\* the returned result too.
C30_EventsAndClicks ==
  /\ [][ /\ total_clicks' # total_clicks =>
              total_clicks' > total_clicks /\ C30_OneEvent
         /\ Events' # Events =>
              C30_OneEvent /\ Len(text_tokens') > Len(text_tokens) ]_vars
  /\ [](/\ Events <= Len(text_tokens)
        /\ pc # "start" => Len(text_tokens) <= Len(target_tokens)
        /\ total_clicks > 0 => Events > 0
        /\ pc = "returned" =>
             /\ stats[2] + stats[3] + stats[4] <= Len(target_tokens)
             /\ stats[1] > 0 => stats[2] + stats[3] + stats[4] > 0)

\* A result with 1 event of each kind for 3 tokens.
C30_Witness ==
  /\ pc = "returned"
  /\ Len(target_tokens) = 3
  /\ stats[2] = 1
  /\ stats[3] = 1
  /\ stats[4] = 1
  /\ stats[1] >= 4

\* A step that calls the oracle.
C31_Calls == sentence_calls' # sentence_calls \/ word_calls' # word_calls

\* C31: the initial phase is entered from the tokenization only, so it runs
\* once, and no oracle call is made before it is over; a step calls the
\* oracle only inside the while loop, the typed tokens differing from the
\* target's; a step of the loop begins with exactly 1 sentence call, whose
\* context is the typed tokens joined, so the sentence calls are as many as
\* the steps of the loop.
C31_SeedThenLoop ==
  /\ [][ /\ pc' = "seed" => pc = "start"
         /\ pc = "seed" => pc' \in {"loop", "returned"} /\ ~C31_Calls
         /\ C31_Calls =>
              /\ pc \in {"loop", "word", "typing"}
              /\ text_tokens # << >>
              /\ text_tokens # target_tokens
              /\ text_tokens' = text_tokens
         /\ (iterations' # iterations \/ sentence_calls' # sentence_calls) =>
              /\ pc = "loop"
              /\ iterations' = iterations + 1
              /\ sentence_calls' = sentence_calls + 1
              /\ word_calls' = word_calls
              /\ llm_context' = Join(text_tokens) ]_vars
  /\ [](/\ sentence_calls = iterations
        /\ pc \in {"start", "seed"} =>
             /\ sentence_calls = 0
             /\ word_calls = 0
             /\ response = NoCall
             /\ text_tokens = << >>
        /\ pc \in BodyPcs => text_tokens # target_tokens)

\* The second step of the loop has made its sentence call, with both typed
\* tokens as the context.
C31_Witness ==
  /\ pc = "sentence_reply"
  /\ iterations = 2
  /\ sentence_calls = 2
  /\ Len(text_tokens) = 2
  /\ Len(target_tokens) = 3
  /\ llm_context = Join(text_tokens)

\* The nesting of a template, read off its text: the depth after line j,
\* the #ifdef lines whose block line p lies in, and whether p lies after
\* the #else of the block of the #ifdef at line i.
Depth(tpl, j) ==
  Cardinality({q \in 1..j : tpl[q].kind = "ifdef"})
    - Cardinality({q \in 1..j : tpl[q].kind = "endif"})

Enclosing(tpl, p) ==
  {i \in 1..(p - 1) :
     /\ tpl[i].kind = "ifdef"
     /\ \A j \in i..(p - 1) : Depth(tpl, j) >= Depth(tpl, i)}

AfterElse(tpl, i, p) ==
  \E e \in (i + 1)..(p - 1) :
    tpl[e].kind = "else" /\ Depth(tpl, e) = Depth(tpl, i)

\* The line numbers of the text lines of a template that lie in no block
\* or after the #else of every block they lie in.
Unguarded(tpl) ==
  {tpl[p].line : p \in {q \in DOMAIN tpl :
     /\ tpl[q].kind = "text"
     /\ \A i \in Enclosing(tpl, q) : AfterElse(tpl, i, q)}}

\* language, num and text are given and no other key is.
OnlySupplied == \A k \in GuardKeys : user_inputs[k] = "absent"

\* C32: in the loop of RunMacro a line is kept if and only if it is a text
\* line and every condition of the include stack holds when the loop takes
\* it, the kept line going to the end of the lines; #ifdef pushes whether
\* user_inputs holds a string that is not empty for its key, #else negates
\* the top of the stack and leaves the rest, #endif takes the top away, a
\* text or #copybara line leaves the stack alone, and the loop raises only
\* on an #else or #endif met with the empty stack.  For a template of
\* TEMPLATES the loop never raises and ends with the empty stack, and when
\* only language, num and text are given the lines kept are, in their
\* order, the text lines outside every block or after the #else of every
\* block around them.
C32_IncludeStack ==
  /\ [][ (line_index' # line_index) =>
           LET line == template[line_index']
               depth == Len(include_block)
           IN  /\ (lines' # lines) <=>
                    /\ line.kind = "text"
                    /\ \A i \in DOMAIN include_block : include_block[i]
               /\ (lines' # lines) => (lines' = Append(lines, line))
               /\ (line.kind = "ifdef") =>
                    include_block' =
                      Append(include_block, user_inputs[line.key] = "given")
               /\ (pc' = "raised") <=>
                    (line.kind \in {"else", "endif"} /\ depth = 0)
               /\ (line.kind = "else" /\ depth > 0) =>
                    /\ Len(include_block') = depth
                    /\ include_block'[depth] = ~include_block[depth]
                    /\ \A i \in 1..(depth - 1) :
                         include_block'[i] = include_block[i]
               /\ (line.kind = "endif" /\ depth > 0) =>
                    include_block =
                      Append(include_block', include_block[depth])
               /\ (line.kind \in {"text", "copybara"}) =>
                    (include_block' = include_block) ]_vars
  /\ []((macro_id \in DOMAIN TEMPLATES) =>
          /\ pc # "raised"
          /\ (pc = "expanded") => (include_block = << >>)
          /\ (pc = "expanded" /\ OnlySupplied) =>
               /\ {lines[i].line : i \in DOMAIN lines} = Unguarded(template)
               /\ \A i \in 1..(Len(lines) - 1) :
                    lines[i].line < lines[i + 1].line)

\* The word template of the simulator is expanded with language, num and
\* text only: the block of lastInputSpeech is dropped, the line after its
\* #else is kept and joined with the line after the #endif.
C32_Witness ==
  /\ pc = "expanded"
  /\ macro_id = WORD_JA_MACRO_ID
  /\ OnlySupplied
  /\ include_block = << >>
  /\ Len(lines) = 25
  /\ lines[1].line = 289
  /\ lines[2].line = 291
  /\ prompt[1] = << 289, 291 >>

====
